---- MODULE Spec2Model ----
(***************************************************************************)
(* HostelSync: the laundry-machine registry, the notice sink and the      *)
(* common-room booking ledger of src/script.js (automatic approval) and   *)
(* src/service-worker.js (admin approval), as one state machine.          *)
(*                                                                         *)
(* Optional JavaScript fields (undefined / null) are modelled as sets:    *)
(* {} is "not set", {v} is "set to v".  Timestamps are milliseconds.      *)
(***************************************************************************)
EXTENDS Integers, Sequences, FiniteSets, TLC

----------------------------------------------------------------------------
(* Bounds of the model *)

NumMachines == 2      \* the first NumMachines machines of the seed are kept
NumRooms == 2         \* the first NumRooms rooms of the catalogue are kept
MaxSeedEtaOffset == 0 \* seeded etas are SeedEtaMin .. SeedEtaMin + offset
MaxMinutes == 2       \* durations typed into the start form: 0 .. MaxMinutes
MaxTicks == 3         \* ticks of the minute timer that are followed
MaxNotices == 3       \* notices a followed run of the registry may hold
MaxBookingNotices == 3 \* notices a followed run of the ledger may hold
MaxBookings == 2      \* booking requests that are followed
MaxT == 3             \* timestamps typed into prompts: 0 .. MaxT half days
MaxProbeBookings == 1 \* stored bookings drawn for the booking-form probe
MaxProbeT == 1        \* stored times of the booking-form probe, in half days
MaxNoticeTicks == 1   \* ticks followed by the sink and cycle specifications
MaxCycleNotices == 3  \* notices a followed run of the wash cycle may hold
MaxCycleMinutes == 1  \* durations of the wash cycle: 0 .. MaxCycleMinutes
MaxNudgeNotices == 5  \* notices a followed run of nudges and flags may hold
MaxWatchNotices == 2  \* notices of user operations in a followed watch-free run
MaxWatchTicks == 2    \* minutes the clock of a watch-free run is followed
MaxTimerMinutes == 3  \* minutes that elapse in a followed run of the timer
MaxStatusNotices == 2 \* notices a followed life of stored bookings may hold
MaxPageNotices == 4   \* notices a followed run of the pages may hold
MaxReportNotices == 2 \* reports that are followed
MaxPersistNotices == 1 \* notices a followed run of all operations may hold
MaxFetches == 6       \* requests sent to the live-status backend
MaxFinishMinutes == 5  \* durations of the followed cycles: 0 .. MaxFinishMinutes
MaxFinishTicks == 6  \* minutes of the followed cycles
MaxFinishNotices == 3  \* notices the followed cycles may hold before a start
MaxRemindNotices == 7  \* notices a followed run of reminders may hold
MaxLoads == 3  \* page loads of a followed run of reminders
MaxApprovalNotices == 5  \* notices before a user operation on timed bookings
MaxApprovalBookings == 2  \* bookings submitted while approval timers run
MaxRoomNotices == 3  \* notices before a user operation on the rooms' bookings
MaxRoomBookings == 2  \* bookings submitted to the rooms
MaxRunMinutes == 3  \* durations of the timed cycles: -1 .. MaxRunMinutes
MaxRunTicks == 3  \* ticks after which no cycle of a timed run is started
MaxRunNotices == 3  \* notices before a user operation of a timed run
MaxStaleNotices == 2  \* notices before a user operation during a refresh
MaxDay == 0           \* dates offered by the booking form: day 0 .. MaxDay

(* Program constants *)

NoticeCap == 50
PerFloor == 5
SeedEtaMin == 8
TickMs == 60 * 1000
DayMs == 24 * 60 * 60 * 1000
HourMs == 60 * 60 * 1000
HalfDayMs == 12 * HourMs

None == {}
Some(v) == {v}
Val(o) == CHOOSE v \in o : TRUE

MachineIds == 1 .. NumMachines
FloorOf(i) == 1 + ((i - 1) \div PerFloor)
Floors == {FloorOf(i) : i \in MachineIds}
Rooms == 1 .. NumRooms

VARIABLES
  machines,    \* state.machines: MachineIds -> machine record
  washes,      \* state.washes, newest first
  reports,     \* state.reports, newest first
  notices,     \* state.notices, newest first
  watchFree,   \* state.watchFree of hostel LVH: floor -> BOOLEAN
  user,        \* state.user: None or Some([id, email, phone])
  now,         \* Date.now()
  ticks,       \* how many times the interval callback has run
  bookings,    \* state.bookings / commonRoomDB.bookings, newest first
  timers,      \* pending simulateApproval timeouts (booking ids), oldest first
  mode,        \* "auto": script.js, "admin": service-worker.js
  call,        \* the handler that ran last, its arguments and its alert()
  tickIntervalStarted,     \* the started-flag of startTick
  intervals,   \* repeating intervals registered with setInterval
  liveStatusFetchInFlight, \* the in-flight guard of the live refresh
  refreshes,   \* refreshLiveMachineFromBackend calls suspended at an await
  live,        \* liveAvailability and liveLog of the designated machine
  fetches,     \* requests issued to the live-status backend
  stored       \* localStorage 'hostelsync_state', parsed

machineVars == <<machines, washes, reports, watchFree, user>>
clockVars == <<now, ticks>>
bookingVars == <<bookings, timers, mode>>
procVars == <<tickIntervalStarted, intervals, liveStatusFetchInFlight,
              refreshes, live, fetches>>
vars == <<machines, washes, reports, notices, watchFree, user, now, ticks,
          bookings, timers, mode, call, tickIntervalStarted, intervals,
          liveStatusFetchInFlight, refreshes, live, fetches, stored>>

(* what JSON.stringify(state) keeps of the model's state *)
Aggregate ==
  [machines |-> machines, washes |-> washes, reports |-> reports,
   notices |-> notices, watchFree |-> watchFree, user |-> user,
   bookings |-> bookings, live |-> live]

saveStateSkipped == stored' = stored

(* saveState() once the handler's writes are done *)
saveState == stored' = Aggregate'

(* LIVE_MACHINE_LABELS names machine M-1A, the first machine of floor 1 *)
isLiveMachine(m) == m = 1

(* state.machines = state.machines.map(...) has put new records in place  *)
(* of those of the machines in ids: a refresh that found its target       *)
(* before holds the old record from now on                                *)
replaces(ids) ==
  /\ refreshes' =
       [i \in 1 .. Len(refreshes) |->
          [refreshes[i] EXCEPT
             !.detached = @ \/ (\E m \in ids : isLiveMachine(m))]]
  /\ UNCHANGED <<tickIntervalStarted, intervals, liveStatusFetchInFlight,
                 live, fetches>>

(* the machines whose records the interval callback replaces *)
Counting(ms) ==
  {m \in DOMAIN ms : ms[m].status = "RUNNING" /\ ms[m].eta # None}

Call(op, id, alert) == [op |-> op, id |-> id, alert |-> alert]

----------------------------------------------------------------------------
(* Notification sink *)

Notice(title, about, kind, t) ==
  [id |-> t, title |-> title, about |-> about, kind |-> kind]

DropLast(s) == SubSeq(s, 1, Len(s) - 1)

pushNoticeDropsNewest(ns, title, about, kind, t) ==
  LET n1 == <<Notice(title, about, kind, t)>> \o ns
  IN  IF Len(n1) > NoticeCap THEN Tail(n1) ELSE n1

pushNotice(ns, title, about, kind, t) ==
  LET n1 == <<Notice(title, about, kind, t)>> \o ns
  IN  IF Len(n1) > NoticeCap THEN DropLast(n1) ELSE n1

----------------------------------------------------------------------------
(* Machine registry *)

SeedMachine(status, eta, lca) ==
  [status |-> status, eta |-> eta, lastCompletedAt |-> lca,
   nudgeCount |-> None, flagCount |-> None, ownerId |-> None]

SeedEtas == SeedEtaMin .. (SeedEtaMin + MaxSeedEtaOffset)

makeMachines ==
  [MachineIds ->
     {SeedMachine("FREE", None, None)}
     \cup {SeedMachine("RUNNING", Some(e), None) : e \in SeedEtas}
     \cup {SeedMachine("AWAITING", None, Some(0 - TickMs))}]

Wash(m, t) ==
  [machineId |-> m, startAt |-> t, endAt |-> None, status |-> "RUNNING"]

(* state.user ? state.user.id : null *)
UserId(u) == IF u = None THEN None ELSE Some(Val(u).id)

startWashKeepsCounters(m, minutes) ==
  /\ machines' = [machines EXCEPT ![m] =
                    [@ EXCEPT !.status = "RUNNING", !.eta = Some(minutes),
                              !.ownerId = UserId(user)]]
  /\ washes' = <<Wash(m, now)>> \o washes
  /\ notices' = pushNotice(notices, "Started wash", m, "info", now)
  /\ call' = Call("startWash", m, "")
  /\ UNCHANGED <<reports, watchFree, user, clockVars, bookingVars>>
  /\ replaces({m})
  /\ saveState

startWash(m, minutes) ==
  /\ machines' = [machines EXCEPT ![m] =
                    [@ EXCEPT !.status = "RUNNING", !.eta = Some(minutes),
                              !.nudgeCount = Some(0), !.flagCount = Some(0),
                              !.ownerId = UserId(user)]]
  /\ washes' = <<Wash(m, now)>> \o washes
  /\ notices' = pushNotice(notices, "Started wash", m, "info", now)
  /\ call' = Call("startWash", m, "")
  /\ UNCHANGED <<reports, watchFree, user, clockVars, bookingVars>>
  /\ replaces({m})
  /\ saveState

collectAwaitingWash(w, m, t) ==
  IF w.machineId = m /\ w.status = "AWAITING"
  THEN [w EXCEPT !.status = "COLLECTED", !.endAt = Some(t)]
  ELSE w

collectWash(w, m, t) ==
  IF w.machineId = m /\ w.status \in {"AWAITING", "RUNNING"}
  THEN [w EXCEPT !.status = "COLLECTED", !.endAt = Some(t)]
  ELSE w

markCollected(m) ==
  /\ machines' = [machines EXCEPT ![m] =
                    [@ EXCEPT !.status = "FREE", !.eta = None,
                              !.lastCompletedAt = None]]
  /\ washes' = [i \in 1 .. Len(washes) |-> collectWash(washes[i], m, now)]
  /\ notices' = pushNotice(notices, "is free now", m, "success", now)
  /\ call' = Call("markCollected", m, "")
  /\ UNCHANGED <<reports, watchFree, user, clockVars, bookingVars>>
  /\ replaces({m})
  /\ saveState

Count(o) == IF o = None THEN 0 ELSE Val(o)

(* owner.phone || owner.email *)
Contact(u) == IF u.phone # None THEN Val(u.phone) ELSE u.email

sendReminderEmailToAnyOwner(ns, mrec, m, t) ==
  IF mrec.ownerId = None THEN ns
  ELSE IF user = None THEN ns
  ELSE IF Contact(Val(user)) = "" THEN ns
  ELSE pushNotice(ns, "Reminder sent", m, "info", t)

(* sendReminderEmail: a reminder notice when the owner is the logged-in   *)
(* user and has a contact.                                                *)
sendReminderEmail(ns, mrec, m, t) ==
  IF mrec.ownerId = None THEN ns
  ELSE IF user = None \/ UserId(user) # mrec.ownerId THEN ns
  ELSE IF Contact(Val(user)) = "" THEN ns
  ELSE pushNotice(ns, "Reminder sent", m, "info", t)

nudgeMachineWarnsAtTwo(m) ==
  LET n == Count(machines[m].nudgeCount) + 1
      mrec == [machines[m] EXCEPT !.nudgeCount = Some(n)]
  IN  /\ machines' = [machines EXCEPT ![m] = mrec]
      /\ notices' =
           IF n >= 2
           THEN sendReminderEmail(
                  pushNotice(notices, "Multiple nudges sent", m, "warning", now),
                  mrec, m, now)
           ELSE pushNotice(notices, "A nudge was sent", m, "info", now)
      /\ call' = Call("nudgeMachine", m, "")
      /\ UNCHANGED <<washes, reports, watchFree, user, clockVars, bookingVars, procVars>>
      /\ saveState

nudgeMachine(m) ==
  LET n == Count(machines[m].nudgeCount) + 1
      mrec == [machines[m] EXCEPT !.nudgeCount = Some(n)]
  IN  /\ machines' = [machines EXCEPT ![m] = mrec]
      /\ notices' =
           IF n >= 3
           THEN sendReminderEmail(
                  pushNotice(notices, "Multiple nudges sent", m, "warning", now),
                  mrec, m, now)
           ELSE pushNotice(notices, "A nudge was sent", m, "info", now)
      /\ call' = Call("nudgeMachine", m, "")
      /\ UNCHANGED <<washes, reports, watchFree, user, clockVars, bookingVars, procVars>>
      /\ saveState

flagMachineAtThree(m) ==
  LET f == Count(machines[m].flagCount) + 1
  IN  /\ machines' =
           IF f >= 3
           THEN [machines EXCEPT ![m] =
                   [@ EXCEPT !.flagCount = Some(0), !.nudgeCount = Some(0),
                             !.status = "AWAITING",
                             !.lastCompletedAt = Some(now)]]
           ELSE [machines EXCEPT ![m].flagCount = Some(f)]
      /\ notices' =
           IF f >= 3
           THEN pushNotice(notices, "flagged as still occupied", m, "report", now)
           ELSE pushNotice(notices, "Flag recorded", m, "info", now)
      /\ call' = Call("flagMachine", m, "")
      /\ UNCHANGED <<washes, reports, watchFree, user, clockVars, bookingVars, procVars>>
      /\ saveState

flagMachine(m) ==
  LET f == Count(machines[m].flagCount) + 1
  IN  /\ machines' =
           IF f >= 2
           THEN [machines EXCEPT ![m] =
                   [@ EXCEPT !.flagCount = Some(0), !.nudgeCount = Some(0),
                             !.status = "AWAITING",
                             !.lastCompletedAt = Some(now)]]
           ELSE [machines EXCEPT ![m].flagCount = Some(f)]
      /\ notices' =
           IF f >= 2
           THEN pushNotice(notices, "flagged as still occupied", m, "report", now)
           ELSE pushNotice(notices, "Flag recorded", m, "info", now)
      /\ call' = Call("flagMachine", m, "")
      /\ UNCHANGED <<washes, reports, watchFree, user, clockVars, bookingVars, procVars>>
      /\ saveState

ReportReasons == {"Not working", "Needs cleanup"}

submitReportKeepsEta(m, reason, affectStatus) ==
  /\ reports' = <<[machineId |-> m, reason |-> reason, createdAt |-> now]>>
                \o reports
  /\ notices' = pushNotice(notices, "Report submitted", m, "report", now)
  /\ machines' =
       IF affectStatus
       THEN [machines EXCEPT ![m] = [@ EXCEPT !.status = "MAINT"]]
       ELSE machines
  /\ call' = Call("submitReport", m, "")
  /\ UNCHANGED <<washes, watchFree, user, clockVars, bookingVars>>
  /\ replaces(IF affectStatus THEN {m} ELSE {})
  /\ saveState

submitReport(m, reason, affectStatus) ==
  /\ reports' = <<[machineId |-> m, reason |-> reason, createdAt |-> now]>>
                \o reports
  /\ notices' = pushNotice(notices, "Report submitted", m, "report", now)
  /\ machines' =
       IF affectStatus
       THEN [machines EXCEPT ![m] = [@ EXCEPT !.status = "MAINT", !.eta = None]]
       ELSE machines
  /\ call' = Call("submitReport", m, "")
  /\ UNCHANGED <<washes, watchFree, user, clockVars, bookingVars>>
  /\ replaces(IF affectStatus THEN {m} ELSE {})
  /\ saveState

(* The interval callback registered by startTick. *)

FreeCount(ms, f) ==
  Cardinality({i \in MachineIds : FloorOf(i) = f /\ ms[i].status = "FREE"})

finishWashNoEnd(w, m, t) ==
  IF w.machineId = m /\ w.status = "RUNNING"
  THEN [w EXCEPT !.status = "AWAITING"]
  ELSE w

finishWash(w, m, t) ==
  IF w.machineId = m /\ w.status = "RUNNING"
  THEN [w EXCEPT !.status = "AWAITING", !.endAt = Some(t)]
  ELSE w

(* state.machines.map(...): machines i .. NumMachines in array order, the *)
(* notices and wash updates made along the way.                           *)
RECURSIVE countdownBelowZero(_, _, _, _, _)
countdownBelowZero(i, ms, ws, ns, t) ==
  IF i > NumMachines
  THEN [machines |-> ms, washes |-> ws, notices |-> ns]
  ELSE
    LET m == ms[i] IN
    IF m.status = "RUNNING" /\ m.eta # None
    THEN
      LET eta == Val(m.eta) - 1
          n1 == IF eta = 3
                THEN pushNotice(ns, "finishing in ~3 minutes", i, "info", t)
                ELSE ns
      IN  IF eta < 0
          THEN countdownBelowZero(i + 1,
                 [ms EXCEPT ![i] = [@ EXCEPT !.status = "AWAITING",
                                             !.eta = None,
                                             !.lastCompletedAt = Some(t)]],
                 [k \in 1 .. Len(ws) |-> finishWash(ws[k], i, t)],
                 pushNotice(n1, "finished", i, "success", t), t)
          ELSE countdownBelowZero(i + 1, [ms EXCEPT ![i].eta = Some(eta)],
                                  ws, n1, t)
    ELSE countdownBelowZero(i + 1, ms, ws, ns, t)

RECURSIVE countdownFromThree(_, _, _, _, _)
countdownFromThree(i, ms, ws, ns, t) ==
  IF i > NumMachines
  THEN [machines |-> ms, washes |-> ws, notices |-> ns]
  ELSE
    LET m == ms[i] IN
    IF m.status = "RUNNING" /\ m.eta # None
    THEN
      LET eta == Val(m.eta) - 1
          n1 == IF eta <= 3 /\ eta > 0
                THEN pushNotice(ns, "finishing in ~3 minutes", i, "info", t)
                ELSE ns
      IN  IF eta <= 0
          THEN countdownFromThree(i + 1,
                 [ms EXCEPT ![i] = [@ EXCEPT !.status = "AWAITING",
                                             !.eta = None,
                                             !.lastCompletedAt = Some(t)]],
                 [k \in 1 .. Len(ws) |-> finishWash(ws[k], i, t)],
                 pushNotice(n1, "finished", i, "success", t), t)
          ELSE countdownFromThree(i + 1, [ms EXCEPT ![i].eta = Some(eta)],
                                  ws, n1, t)
    ELSE countdownFromThree(i + 1, ms, ws, ns, t)

RECURSIVE countdown(_, _, _, _, _)
countdown(i, ms, ws, ns, t) ==
  IF i > NumMachines
  THEN [machines |-> ms, washes |-> ws, notices |-> ns]
  ELSE
    LET m == ms[i] IN
    IF m.status = "RUNNING" /\ m.eta # None
    THEN
      LET eta == Val(m.eta) - 1
          n1 == IF eta = 3
                THEN pushNotice(ns, "finishing in ~3 minutes", i, "info", t)
                ELSE ns
      IN  IF eta <= 0
          THEN countdown(i + 1,
                 [ms EXCEPT ![i] = [@ EXCEPT !.status = "AWAITING",
                                             !.eta = None,
                                             !.lastCompletedAt = Some(t)]],
                 [k \in 1 .. Len(ws) |-> finishWash(ws[k], i, t)],
                 pushNotice(n1, "finished", i, "success", t), t)
          ELSE countdown(i + 1, [ms EXCEPT ![i].eta = Some(eta)], ws, n1, t)
    ELSE countdown(i + 1, ms, ws, ns, t)

MaxFloor == FloorOf(NumMachines)

RECURSIVE checkWatchFreeOnIncrease(_, _, _, _, _, _)
checkWatchFreeOnIncrease(f, wf, ns, before, after, t) ==
  IF f > MaxFloor
  THEN [watchFree |-> wf, notices |-> ns]
  ELSE IF wf[f] /\ FreeCount(after, f) > FreeCount(before, f)
       THEN checkWatchFreeOnIncrease(f + 1, [wf EXCEPT ![f] = FALSE],
              pushNotice(ns, "A machine is now free", f, "success", t),
              before, after, t)
       ELSE checkWatchFreeOnIncrease(f + 1, wf, ns, before, after, t)

(* Object.keys(state.watchFree[hostel]).forEach: floors in ascending order *)
RECURSIVE checkWatchFree(_, _, _, _, _, _)
checkWatchFree(f, wf, ns, before, after, t) ==
  IF f > MaxFloor
  THEN [watchFree |-> wf, notices |-> ns]
  ELSE IF wf[f] /\ FreeCount(before, f) = 0 /\ FreeCount(after, f) > 0
       THEN checkWatchFree(f + 1, [wf EXCEPT ![f] = FALSE],
              pushNotice(ns, "A machine is now free", f, "success", t),
              before, after, t)
       ELSE checkWatchFree(f + 1, wf, ns, before, after, t)

tick ==
  LET t == now + TickMs
      c == countdown(1, machines, washes, notices, t)
      w == checkWatchFree(1, watchFree, c.notices, machines, c.machines, t)
  IN  /\ now' = t
      /\ ticks' = ticks + 1
      /\ machines' = c.machines
      /\ washes' = c.washes
      /\ watchFree' = w.watchFree
      /\ notices' = w.notices
      /\ call' = Call("tick", 0, "")
      /\ UNCHANGED <<reports, user, bookingVars>>
      /\ replaces(Counting(machines))
      /\ saveState

----------------------------------------------------------------------------
(* The registry driven through its operations, on any machine. *)

(* the page once its DOMContentLoaded handler has run: the minute timer   *)
(* is registered and no live refresh is under way                         *)
InitStarted ==
  /\ tickIntervalStarted = TRUE
  /\ intervals = 1
  /\ liveStatusFetchInFlight = FALSE
  /\ refreshes = <<>>
  /\ live = [liveAvailability |-> None, liveLog |-> None]
  /\ fetches = 0

(* the fresh aggregate of initState, but for machines and bookings *)
InitAggregate ==
  /\ washes = <<>>
  /\ reports = <<>>
  /\ notices = <<>>
  /\ watchFree = [f \in Floors |-> FALSE]
  /\ user = None
  /\ now = 0
  /\ ticks = 0
  /\ timers = <<>>
  /\ call = Call("init", 0, "")

InitBase == InitAggregate /\ InitStarted

InitCommon == InitBase /\ bookings = <<>>

InitRegistry ==
  /\ InitCommon
  /\ machines \in makeMachines
  /\ mode = "auto"
  /\ stored = Aggregate

Minutes == 0 .. MaxMinutes

RegistryBudget == Len(notices) < MaxNotices /\ ticks < MaxTicks

StartWash ==
  RegistryBudget /\ \E m \in MachineIds, minutes \in Minutes : startWash(m, minutes)

MarkCollected == RegistryBudget /\ \E m \in MachineIds : markCollected(m)

NudgeMachine == RegistryBudget /\ \E m \in MachineIds : nudgeMachine(m)

FlagMachine == RegistryBudget /\ \E m \in MachineIds : flagMachine(m)

SubmitReport ==
  RegistryBudget /\ \E m \in MachineIds, r \in ReportReasons, a \in BOOLEAN :
                     submitReport(m, r, a)

Tick == RegistryBudget /\ tick

NextRegistry ==
  \/ StartWash
  \/ MarkCollected
  \/ NudgeMachine
  \/ FlagMachine
  \/ SubmitReport
  \/ Tick

SpecRegistry == InitRegistry /\ [][NextRegistry]_vars

(* C1: every machine has a defined eta if and only if its status is       *)
(* RUNNING, after any sequence of registry operations on a seeded state.  *)
EtaIffRunning ==
  \A m \in MachineIds : (machines[m].eta # None) <=> (machines[m].status = "RUNNING")

(* C2: every machine has a defined lastCompletedAt if and only if its     *)
(* status is AWAITING, after any sequence of registry operations.         *)
CompletedAtIffAwaiting ==
  \A m \in MachineIds :
    (machines[m].lastCompletedAt # None) <=> (machines[m].status = "AWAITING")

----------------------------------------------------------------------------
(* Booking ledger *)

Inactive == {"CANCELLED", "REJECTED"}

(* state.bookings.some(...): the bookings from index i on, in array order *)
RECURSIVE someConflict(_, _, _, _, _)
someConflict(bs, i, roomId, startAt, endAt) ==
  IF i > Len(bs) THEN FALSE
  ELSE IF bs[i].roomId # roomId THEN someConflict(bs, i + 1, roomId, startAt, endAt)
  ELSE IF bs[i].status = "CANCELLED" \/ bs[i].status = "REJECTED"
       THEN someConflict(bs, i + 1, roomId, startAt, endAt)
  ELSE IF startAt < bs[i].endAt /\ endAt > bs[i].startAt THEN TRUE
  ELSE someConflict(bs, i + 1, roomId, startAt, endAt)

checkConflictClosed(roomId, startAt, endAt) ==
  \E i \in 1 .. Len(bookings) :
    /\ bookings[i].roomId = roomId
    /\ bookings[i].status \notin Inactive
    /\ startAt <= bookings[i].endAt /\ endAt >= bookings[i].startAt

checkConflictApprovedOnly(roomId, startAt, endAt) ==
  \E i \in 1 .. Len(bookings) :
    /\ bookings[i].roomId = roomId
    /\ bookings[i].status = "APPROVED"
    /\ startAt < bookings[i].endAt /\ endAt > bookings[i].startAt

checkConflict(roomId, startAt, endAt) ==
  someConflict(bookings, 1, roomId, startAt, endAt)

Booking(id, roomId, startAt, endAt, reason, t) ==
  [id |-> id, roomId |-> roomId, startAt |-> startAt, endAt |-> endAt,
   reason |-> reason, status |-> "PENDING", createdAt |-> t, updatedAt |-> t]

(* findIndex: the first index holding the id, 0 for -1 *)
findIndex(id) ==
  LET hits == {i \in 1 .. Len(bookings) : bookings[i].id = id}
  IN  IF hits = {} THEN 0 ELSE CHOOSE i \in hits : \A j \in hits : i <= j

(* What a ledger handler leaves behind: the alert() it raised ("" for   *)
(* none) and the bookings, notices and pending timeouts after it.         *)
Outcome(alert, bs, ns, ts) ==
  [alert |-> alert, bookings |-> bs, notices |-> ns, timers |-> ts]

(* alert(...); return; *)
Rejected(alert) == Outcome(alert, bookings, notices, timers)

(* no branch taken: a silent no-op *)
NoOp == Outcome("", bookings, notices, timers)

(* simulateApproval registers a timeout in script.js; service-worker.js  *)
(* has no such call.                                                      *)
simulateApprovalNoTimeout(id) == timers

simulateApproval(id) == IF mode = "auto" THEN Append(timers, id) ELSE timers

submitBooking(roomId, startAt, endAt, reason) ==
  LET id == Len(bookings) + 1
  IN  Outcome("",
              <<Booking(id, roomId, startAt, endAt, reason, now)>> \o bookings,
              pushNotice(notices, "Request submitted", roomId, "info", now),
              simulateApproval(id))

(* new Date(`${dateValue}T${value}`) *)
LocalTime(date, value) == date * DayMs + value

(* endAt of the form: moved to the next day when not after startAt *)
FormEnd(date, startValue, endValue, wrap) ==
  IF LocalTime(date, endValue) <= LocalTime(date, startValue)
  THEN LocalTime(date, endValue) + wrap
  ELSE LocalTime(date, endValue)

(* the duration check of the "Submit request" button *)
exceedsDayOrEqual(diff) == diff >= DayMs

exceedsDay(diff) == diff > DayMs

(* the "Submit request" button of openRoomModal *)
submitClick(roomId, filled, date, startValue, endValue, wrap, reason) ==
  LET startAt == LocalTime(date, startValue)
      endAt == FormEnd(date, startValue, endValue, wrap)
      diff == endAt - startAt
  IN  IF ~filled THEN Rejected("Please select a date and times.")
      ELSE IF diff <= 0 THEN Rejected("End time must be after start time.")
      ELSE IF exceedsDay(diff)
           THEN Rejected("Booking duration cannot exceed 24 hours.")
      ELSE IF checkConflict(roomId, startAt, endAt)
           THEN Rejected("This room is not available for the selected times.")
      ELSE IF reason = "" THEN Rejected("Please provide a reason for booking.")
      ELSE submitBooking(roomId, startAt, endAt, reason)

SetStatus(idx, status) ==
  [bookings EXCEPT ![idx] = [@ EXCEPT !.status = status, !.updatedAt = now]]

approvalTimeoutAnyStatus(bookingId) ==
  LET idx == findIndex(bookingId)
  IN  IF idx > 0
      THEN Outcome("", SetStatus(idx, "APPROVED"),
                   pushNotice(notices, "Booking approved", bookings[idx].roomId,
                              "success", now),
                   timers)
      ELSE NoOp

(* the timeout callback of simulateApproval(bookingId) *)
approvalTimeout(bookingId) ==
  LET idx == findIndex(bookingId)
  IN  IF idx > 0 /\ bookings[idx].status = "PENDING"
      THEN Outcome("", SetStatus(idx, "APPROVED"),
                   pushNotice(notices, "Booking approved", bookings[idx].roomId,
                              "success", now),
                   timers)
      ELSE NoOp

approveBookingAnyStatus(bookingId) ==
  LET idx == findIndex(bookingId)
  IN  IF idx > 0
      THEN Outcome("", SetStatus(idx, "APPROVED"),
                   pushNotice(notices, "Booking approved", bookings[idx].roomId,
                              "success", now),
                   timers)
      ELSE NoOp

approveBooking(bookingId) ==
  LET idx == findIndex(bookingId)
  IN  IF idx > 0 /\ bookings[idx].status = "PENDING"
      THEN Outcome("", SetStatus(idx, "APPROVED"),
                   pushNotice(notices, "Booking approved", bookings[idx].roomId,
                              "success", now),
                   timers)
      ELSE NoOp

rejectBooking(bookingId) ==
  LET idx == findIndex(bookingId)
  IN  IF idx > 0 /\ bookings[idx].status = "PENDING"
      THEN Outcome("", SetStatus(idx, "REJECTED"),
                   pushNotice(notices, "Booking rejected", bookings[idx].roomId,
                              "warning", now),
                   timers)
      ELSE NoOp

cancelBookingAnyStatus(id) ==
  LET idx == findIndex(id)
  IN  IF idx > 0
      THEN Outcome("", SetStatus(idx, "CANCELLED"),
                   pushNotice(notices, "Booking cancelled", bookings[idx].roomId,
                              "info", now),
                   timers)
      ELSE NoOp

cancelBooking(id) ==
  LET idx == findIndex(id)
  IN  IF idx > 0 /\ bookings[idx].status \in {"PENDING", "APPROVED"}
      THEN Outcome("", SetStatus(idx, "CANCELLED"),
                   pushNotice(notices, "Booking cancelled", bookings[idx].roomId,
                              "info", now),
                   timers)
      ELSE NoOp

extendBooking(id, newEndAt) ==
  LET idx == findIndex(id)
      booking == bookings[idx]
  IN  IF idx > 0 /\ booking.status = "APPROVED"
      THEN IF newEndAt - booking.startAt > DayMs
           THEN Rejected("Extension exceeds 24 hours from start time.")
           ELSE IF checkConflict(booking.roomId, booking.startAt, newEndAt)
           THEN Rejected("Requested extension overlaps with another booking.")
           ELSE Outcome("",
                  [bookings EXCEPT ![idx] =
                     [@ EXCEPT !.endAt = newEndAt, !.status = "PENDING",
                               !.updatedAt = now]],
                  pushNotice(notices, "Extension requested", booking.roomId,
                             "info", now),
                  simulateApproval(id))
      ELSE NoOp

(* newReason is None when the prompt is dismissed (null) *)
modifyBooking(id, newStartAt, newEndAt, newReason) ==
  LET idx == findIndex(id)
      booking == bookings[idx]
      diff == newEndAt - newStartAt
  IN  IF idx > 0 /\ booking.status \in {"PENDING", "APPROVED"}
      THEN IF diff <= 0 THEN Rejected("End time must be after start time.")
           ELSE IF diff > DayMs THEN Rejected("Bookings cannot exceed 24 hours.")
           ELSE IF checkConflict(booking.roomId, newStartAt, newEndAt)
           THEN Rejected("Requested times overlap with another booking.")
           ELSE Outcome("",
                  [bookings EXCEPT ![idx] =
                     [@ EXCEPT !.startAt = newStartAt, !.endAt = newEndAt,
                               !.reason = IF newReason = None THEN booking.reason
                                          ELSE Val(newReason),
                               !.status = "PENDING", !.updatedAt = now]],
                  pushNotice(notices, "Booking modified", booking.roomId,
                             "info", now),
                  simulateApproval(id))
      ELSE NoOp

----------------------------------------------------------------------------
(* The ledger driven through the booking form and its operations. *)

Dates == 0 .. MaxDay
TimesOfDay == {0, HalfDayMs}
(* setDate(getDate() + 1): the same wall-clock time one local day later,  *)
(* 23, 24 or 25 hours on, depending on daylight-saving changes.           *)
DayLengths == {DayMs - HourMs, DayMs, DayMs + HourMs}
Reasons == {"", "study"}
NewReasons == {None, Some("party")}
ArgTimes == {k * HalfDayMs : k \in 0 .. MaxT}
BookingIds == 1 .. (MaxBookings + 1)

(* A handler has run and left the outcome out. *)
Ran(op, id, out) ==
  /\ call' = Call(op, id, out.alert)
  /\ bookings' = out.bookings
  /\ notices' = out.notices
  /\ timers' = out.timers
  /\ UNCHANGED <<machineVars, clockVars, mode, procVars>>
  /\ IF out.alert # "" \/ out = NoOp THEN stored' = stored ELSE saveState

LedgerBudget == Len(notices) < MaxBookingNotices

SubmitClick ==
  /\ LedgerBudget
  /\ Len(bookings) < MaxBookings
  /\ \E r \in Rooms, filled \in BOOLEAN, d \in Dates, sv \in TimesOfDay,
        ev \in TimesOfDay, wrap \in DayLengths, reason \in Reasons :
          /\ (ev <= sv \/ wrap = DayMs)
          /\ (filled \/ (sv = 0 /\ ev = 0 /\ wrap = DayMs /\ reason = ""))
          /\ Ran("submitClick", r, submitClick(r, filled, d, sv, ev, wrap, reason))

ApprovalTimeout ==
  /\ LedgerBudget
  /\ timers # <<>>
  /\ LET out == approvalTimeout(Head(timers))
     IN  Ran("approvalTimeout", Head(timers), [out EXCEPT !.timers = Tail(timers)])

ApproveBooking ==
  /\ LedgerBudget
  /\ mode = "admin"
  /\ \E id \in BookingIds : Ran("approveBooking", id, approveBooking(id))

RejectBooking ==
  /\ LedgerBudget
  /\ mode = "admin"
  /\ \E id \in BookingIds : Ran("rejectBooking", id, rejectBooking(id))

CancelBooking ==
  LedgerBudget /\ \E id \in BookingIds : Ran("cancelBooking", id, cancelBooking(id))

ExtendBooking ==
  /\ LedgerBudget
  /\ \E id \in BookingIds, e \in ArgTimes :
       Ran("extendBooking", id, extendBooking(id, e))

ModifyBooking ==
  /\ LedgerBudget
  /\ \E id \in BookingIds, s \in ArgTimes, e \in ArgTimes, nr \in NewReasons :
       Ran("modifyBooking", id, modifyBooking(id, s, e, nr))

InitLedger ==
  /\ InitCommon
  /\ machines = [m \in MachineIds |-> SeedMachine("FREE", None, None)]
  /\ mode \in {"auto", "admin"}
  /\ stored = Aggregate

NextLedger ==
  \/ SubmitClick
  \/ ApprovalTimeout
  \/ ApproveBooking
  \/ RejectBooking
  \/ CancelBooking
  \/ ExtendBooking
  \/ ModifyBooking

SpecLedger == InitLedger /\ [][NextLedger]_vars

----------------------------------------------------------------------------
(* Properties of the ledger *)

Duration(b) == b.endAt - b.startAt

(* some active booking of the room overlaps [startAt, endAt) *)
ActiveOverlap(roomId, startAt, endAt) ==
  \E j \in 1 .. Len(bookings) :
    /\ bookings[j].roomId = roomId
    /\ bookings[j].status \notin Inactive
    /\ startAt < bookings[j].endAt /\ endAt > bookings[j].startAt

(* some active booking of the room other than the one at idx overlaps *)
OtherOverlap(idx, roomId, startAt, endAt) ==
  \E j \in 1 .. Len(bookings) :
    /\ j # idx
    /\ bookings[j].roomId = roomId
    /\ bookings[j].status \notin Inactive
    /\ startAt < bookings[j].endAt /\ endAt > bookings[j].startAt

Unchanged(out) == out.bookings = bookings /\ out.notices = notices

(* C4: every stored booking has endAt > startAt and lasts at most 24h.    *)
BookingIntervalsValid ==
  \A i \in 1 .. Len(bookings) :
    bookings[i].endAt > bookings[i].startAt /\ Duration(bookings[i]) <= DayMs

(* C5: extendBooking on an APPROVED booking succeeds (endAt = newEndAt,   *)
(* status PENDING) whenever newEndAt - startAt <= 24h and no other active *)
(* booking of the room overlaps [startAt, newEndAt).                      *)
ExtendIgnoresOwnInterval ==
  \A id \in BookingIds, e \in ArgTimes :
    LET idx == findIndex(id)
        b == bookings[idx]
        out == extendBooking(id, e)
    IN  (/\ idx > 0
         /\ b.status = "APPROVED"
         /\ e - b.startAt <= DayMs
         /\ ~OtherOverlap(idx, b.roomId, b.startAt, e))
        => /\ out.alert = ""
           /\ out.bookings[idx].endAt = e
           /\ out.bookings[idx].status = "PENDING"

(* C6: extendBooking reports a failure and changes neither bookings nor   *)
(* notices when newEndAt - startAt > 24h, and accepts an extension to     *)
(* exactly 24h that no other booking of the room overlaps.                *)
ExtendDurationLimit ==
  \A id \in BookingIds, e \in ArgTimes :
    LET idx == findIndex(id)
        b == bookings[idx]
        out == extendBooking(id, e)
    IN  (idx > 0 /\ b.status = "APPROVED")
        => /\ (e - b.startAt > DayMs) => (out.alert # "" /\ Unchanged(out))
           /\ (e - b.startAt = DayMs /\ ~OtherOverlap(idx, b.roomId, b.startAt, e))
              => /\ out.alert = ""
                 /\ out.bookings[idx].endAt = e
                 /\ out.bookings[idx].status = "PENDING"

Modified(b, s, e, nr) ==
  [b EXCEPT !.startAt = s, !.endAt = e,
            !.reason = IF nr = None THEN b.reason ELSE Val(nr),
            !.status = "PENDING", !.updatedAt = now]

(* C7: modifyBooking on a PENDING or APPROVED booking reports a failure   *)
(* and changes nothing when newEndAt <= newStartAt, when the duration     *)
(* exceeds 24h, or when another active booking of the room overlaps; it   *)
(* accepts exactly 24h, and on success stores the new interval, the new   *)
(* reason (the old one if none is given) and status PENDING.              *)
ModifyValidates ==
  \A id \in BookingIds, s \in ArgTimes, e \in ArgTimes, nr \in NewReasons :
    LET idx == findIndex(id)
        b == bookings[idx]
        out == modifyBooking(id, s, e, nr)
    IN  (idx > 0 /\ b.status \in {"PENDING", "APPROVED"})
        => /\ (e <= s \/ e - s > DayMs \/ OtherOverlap(idx, b.roomId, s, e))
              => (out.alert # "" /\ Unchanged(out))
           /\ (e - s = DayMs /\ ~OtherOverlap(idx, b.roomId, s, e))
              => out.alert = ""
           /\ (out.alert = "")
              => out.bookings = [bookings EXCEPT ![idx] = Modified(b, s, e, nr)]

(* C8: modifyBooking succeeds for a valid new interval that overlaps only *)
(* the current interval of the booking being modified.                    *)
ModifyIgnoresOwnInterval ==
  \A id \in BookingIds, s \in ArgTimes, e \in ArgTimes, nr \in NewReasons :
    LET idx == findIndex(id)
        b == bookings[idx]
        out == modifyBooking(id, s, e, nr)
    IN  (/\ idx > 0
         /\ b.status \in {"PENDING", "APPROVED"}
         /\ e > s /\ e - s <= DayMs
         /\ s < b.endAt /\ e > b.startAt
         /\ ~OtherOverlap(idx, b.roomId, s, e))
        => /\ out.alert = ""
           /\ out.bookings = [bookings EXCEPT ![idx] = Modified(b, s, e, nr)]

FormInputs ==
  [roomId : Rooms, date : Dates, startValue : TimesOfDay, endValue : TimesOfDay,
   wrap : DayLengths, reason : Reasons]

FormStart(f) == LocalTime(f.date, f.startValue)
FormEndOf(f) == FormEnd(f.date, f.startValue, f.endValue, f.wrap)
FormOutcome(f) ==
  submitClick(f.roomId, TRUE, f.date, f.startValue, f.endValue, f.wrap, f.reason)

TooLongRejected(f) ==
  (FormEndOf(f) - FormStart(f) > DayMs)
  => /\ FormOutcome(f).alert = "Booking duration cannot exceed 24 hours."
     /\ Unchanged(FormOutcome(f))

Stored(f) ==
  /\ FormOutcome(f).alert = ""
  /\ FormOutcome(f).notices # notices
  /\ FormOutcome(f).bookings =
       <<Booking(Len(bookings) + 1, f.roomId, FormStart(f), FormEndOf(f),
                 f.reason, now)>> \o bookings

(* C9 as stated: a request longer than 24h is rejected with a validation  *)
(* error and no change; a request of exactly 24h that conflicts with      *)
(* nothing is stored as a PENDING booking.                                *)
SubmitDurationLimitAnyReason ==
  \A f \in FormInputs :
    /\ TooLongRejected(f)
    /\ (/\ FormEndOf(f) - FormStart(f) = DayMs
        /\ ~ActiveOverlap(f.roomId, FormStart(f), FormEndOf(f)))
       => Stored(f)

(* C9 amended: a request longer than 24h is rejected with a validation    *)
(* error and no change; a request of exactly 24h that conflicts with      *)
(* nothing and gives a non-empty reason is stored as a PENDING booking.   *)
SubmitDurationLimit ==
  \A f \in FormInputs :
    /\ TooLongRejected(f)
    /\ (/\ FormEndOf(f) - FormStart(f) = DayMs
        /\ ~ActiveOverlap(f.roomId, FormStart(f), FormEndOf(f))
        /\ f.reason # "")
       => Stored(f)

(* the form has stored a 24h request as PENDING, and a longer one was     *)
(* just refused                                                           *)
SubmitDurationLimitWitness ==
  /\ call.op = "submitClick"
  /\ call.alert = "Booking duration cannot exceed 24 hours."
  /\ \E i \in 1 .. Len(bookings) :
       /\ Duration(bookings[i]) = DayMs
       /\ bookings[i].status = "PENDING"
       /\ bookings[i].reason \in Reasons

----------------------------------------------------------------------------
(* The booking form on arbitrary stored bookings: the ledger is loaded    *)
(* with any list of up to MaxProbeBookings bookings, and the form, which  *)
(* calls checkConflict, is submitted until the list outgrows that bound.  *)

ProbeTimes == {k * HalfDayMs : k \in 0 .. MaxProbeT}
Statuses == {"PENDING", "APPROVED", "REJECTED", "CANCELLED"}

ProbeFields ==
  {f \in [roomId : Rooms, startAt : ProbeTimes, endAt : ProbeTimes, status : Statuses] :
     f.startAt < f.endAt}

StoredBooking(f, id) ==
  [Booking(id, f.roomId, f.startAt, f.endAt, "meeting", 0) EXCEPT !.status = f.status]

StoredLists ==
  UNION {[1 .. n -> ProbeFields] : n \in 0 .. MaxProbeBookings}

InitProbe ==
  /\ InitBase
  /\ machines = [m \in MachineIds |-> SeedMachine("FREE", None, None)]
  /\ mode = "admin"
  /\ \E l \in StoredLists :
       bookings = [i \in 1 .. Len(l) |-> StoredBooking(l[i], Len(l) - i + 1)]
  /\ stored = Aggregate

ProbeSubmitClick ==
  /\ Len(bookings) <= MaxProbeBookings
  /\ \E r \in Rooms, sv \in TimesOfDay, ev \in TimesOfDay,
        wrap \in DayLengths, reason \in Reasons :
          /\ (ev <= sv \/ wrap = DayMs)
          /\ Ran("submitClick", r, submitClick(r, TRUE, 0, sv, ev, wrap, reason))

NextProbe == ProbeSubmitClick

SpecProbe == InitProbe /\ [][NextProbe]_vars

(* C3: checkConflict(roomId, startAt, endAt) is true exactly when some    *)
(* stored booking of that room, neither CANCELLED nor REJECTED, has       *)
(* startAt < booking.endAt and endAt > booking.startAt.                   *)
ConflictIffActiveOverlap ==
  \A r \in Rooms, s \in ProbeTimes \cup ArgTimes, e \in ProbeTimes \cup ArgTimes :
    checkConflict(r, s, e) <=> ActiveOverlap(r, s, e)

(* the form has stored a request over an inactive booking of the same    *)
(* room and the same hours: checkConflict was false for that interval     *)
(* before the request was stored and is true for it now                   *)
ConflictWitness ==
  /\ call.op = "submitClick"
  /\ call.alert = ""
  /\ Len(bookings) = 2
  /\ bookings[2].status \in Inactive
  /\ bookings[2].roomId = bookings[1].roomId
  /\ bookings[1].startAt < bookings[2].endAt
  /\ bookings[1].endAt > bookings[2].startAt
  /\ checkConflict(bookings[1].roomId, bookings[1].startAt, bookings[1].endAt)

----------------------------------------------------------------------------
(* The notice sink filled past its cap: one wash is started and the       *)
(* "Notify When Done" button of the running machine is pressed again and  *)
(* again while the minute timer runs.                                     *)

DefaultMinutes == 35

(* the "Notify When Done" button of openMachineModal *)
notifyWhenDone(m) ==
  /\ notices' = pushNotice(notices, "You will be notified", m, "info", now)
  /\ call' = Call("notifyWhenDone", m, "")
  /\ UNCHANGED <<machineVars, clockVars, bookingVars, procVars>>
  /\ saveState

InitSink ==
  /\ InitCommon
  /\ machines = [m \in MachineIds |-> SeedMachine("FREE", None, None)]
  /\ mode = "auto"
  /\ stored = Aggregate

SinkStartWash == washes = <<>> /\ startWash(1, DefaultMinutes)

SinkNotifyWhenDone ==
  \E m \in MachineIds : machines[m].status = "RUNNING" /\ notifyWhenDone(m)

SinkTick == ticks < MaxNoticeTicks /\ tick

NextSink ==
  \/ SinkStartWash
  \/ SinkNotifyWhenDone
  \/ SinkTick

SpecSink == InitSink /\ [][NextSink]_vars

NewestFirst ==
  \A i \in 1 .. (Len(notices) - 1) : notices[i].id >= notices[i + 1].id

(* the step put k new notices at the head and dropped what exceeds the cap *)
Pushed(k) ==
  /\ Len(notices') = IF Len(notices) + k > NoticeCap THEN NoticeCap
                     ELSE Len(notices) + k
  /\ \A i \in 1 .. Len(notices') :
       IF i <= k THEN notices'[i].id = now' ELSE notices'[i] = notices[i - k]

(* C10: the notice list never holds more than 50 entries; each push puts  *)
(* the new notice at the head and drops the oldest (tail) entry at 51, so *)
(* the list is the most recent notices, newest first.                     *)
NoticesCapped ==
  /\ [](Len(notices) <= NoticeCap /\ NewestFirst)
  /\ [][/\ call'.op \in {"startWash", "notifyWhenDone"} => Pushed(1)
        /\ call'.op = "tick" => Pushed(0)]_vars

(* the list is full of later notices: the "Started wash" notice pushed    *)
(* first has been evicted                                                 *)
NoticesCappedWitness ==
  /\ washes # <<>>
  /\ Len(notices) = NoticeCap
  /\ \A i \in 1 .. Len(notices) : notices[i].title # "Started wash"
  /\ notices[1].id > notices[NoticeCap].id

----------------------------------------------------------------------------
(* The wash cycle: a user may log in, washes are started on any machine,  *)
(* machines are nudged and flagged, and the minute timer runs them down.  *)

(* String.prototype.trim on the strings the forms are given *)
trim(str) ==
  CASE str = " " -> ""
    [] str = " you@iimcal.ac.in " -> "you@iimcal.ac.in"
    [] str = " +91 9876543210 " -> "+91 9876543210"
    [] OTHER -> str

(* phone.trim() || null *)
PhoneOrNull(phone) == IF trim(phone) = "" THEN None ELSE Some(trim(phone))

loginUser(email, phone) ==
  /\ user' = Some([id |-> now, email |-> trim(email),
                   phone |-> PhoneOrNull(phone)])
  /\ notices' = pushNotice(notices, "Logged in", 0, "info", now)
  /\ call' = Call("loginUser", 0, "")
  /\ UNCHANGED <<machines, washes, reports, watchFree, clockVars, bookingVars,
                 procVars>>
  /\ saveState

InitCycle ==
  /\ InitCommon
  /\ machines = [m \in MachineIds |-> SeedMachine("FREE", None, None)]
  /\ mode = "auto"
  /\ stored = Aggregate

CycleMinutes == 0 .. MaxCycleMinutes

CycleBudget == Len(notices) < MaxCycleNotices

CycleLogin ==
  CycleBudget /\ user = None /\ loginUser("you@iimcal.ac.in", "")

CycleStartWash ==
  CycleBudget /\ \E m \in MachineIds, minutes \in CycleMinutes : startWash(m, minutes)

CycleNudge == CycleBudget /\ \E m \in MachineIds : nudgeMachine(m)

CycleFlag == CycleBudget /\ \E m \in MachineIds : flagMachine(m)

CycleTick == ticks < MaxNoticeTicks /\ tick

NextCycle ==
  \/ CycleLogin
  \/ CycleStartWash
  \/ CycleNudge
  \/ CycleFlag
  \/ CycleTick

SpecCycle == InitCycle /\ [][NextCycle]_vars

(* the notices the step has put at the head of the list *)
NewNotices == SubSeq(notices', 1, Len(notices') - Len(notices))

Finishing(m) ==
  /\ machines[m].status = "RUNNING"
  /\ machines[m].eta # None
  /\ Val(machines[m].eta) - 1 <= 0

(* C11: a tick on a RUNNING machine whose eta decrements to 0 or below    *)
(* sets it to AWAITING, clears eta, sets lastCompletedAt to the tick      *)
(* time, moves every RUNNING wash record of the machine to AWAITING with  *)
(* endAt set, and emits exactly one "finished" success notice for it.     *)
TickFinishesCycle ==
  [][call'.op = "tick" =>
       \A m \in MachineIds :
         Finishing(m) =>
           /\ machines'[m].status = "AWAITING"
           /\ machines'[m].eta = None
           /\ machines'[m].lastCompletedAt = Some(now')
           /\ Len(washes') = Len(washes)
           /\ \A i \in 1 .. Len(washes) :
                (washes[i].machineId = m /\ washes[i].status = "RUNNING")
                => /\ washes'[i].status = "AWAITING"
                   /\ washes'[i].endAt = Some(now')
           /\ Cardinality({i \in 1 .. Len(NewNotices) :
                             /\ NewNotices[i].title = "finished"
                             /\ NewNotices[i].about = m
                             /\ NewNotices[i].kind = "success"}) = 1]_vars

(* a tick has just finished a machine and closed its running wash record  *)
TickFinishesCycleWitness ==
  /\ call.op = "tick"
  /\ \E i \in 1 .. Len(washes) :
       /\ washes[i].status = "AWAITING"
       /\ washes[i].endAt = Some(now)
       /\ machines[washes[i].machineId].status = "AWAITING"
       /\ machines[washes[i].machineId].eta = None
       /\ machines[washes[i].machineId].lastCompletedAt = Some(now)
  /\ notices[1].title = "finished"

(* C14: startWash(machine, minutes) sets the machine to RUNNING with      *)
(* eta = minutes, both counters 0 and ownerId the current user's id (not  *)
(* set when nobody is logged in), prepends one RUNNING wash record,       *)
(* emits one info notice, and leaves every other machine unchanged,       *)
(* whatever the counters were before.                                     *)
StartWashResets ==
  [][call'.op = "startWash" =>
       /\ \E minutes \in CycleMinutes : machines'[call'.id].eta = Some(minutes)
       /\ \A m \in MachineIds, minutes \in CycleMinutes :
            startWash(m, minutes)
            => /\ machines'[m].status = "RUNNING"
               /\ machines'[m].eta = Some(minutes)
               /\ machines'[m].nudgeCount = Some(0)
               /\ machines'[m].flagCount = Some(0)
               /\ machines'[m].ownerId = UserId(user)
               /\ \A o \in MachineIds \ {m} : machines'[o] = machines[o]
               /\ washes' = <<Wash(m, now)>> \o washes
               /\ Len(NewNotices) = 1
               /\ NewNotices[1].kind = "info"
               /\ Tail(notices') = notices]_vars

(* a logged-in user has just started a wash on a machine that had been    *)
(* nudged before                                                          *)
StartWashResetsWitness ==
  /\ call.op = "startWash"
  /\ user # None
  /\ machines[call.id].ownerId = UserId(user)
  /\ machines[call.id].nudgeCount = Some(0)
  /\ \E i \in 1 .. Len(notices) :
       notices[i].title = "A nudge was sent" /\ notices[i].about = call.id

----------------------------------------------------------------------------
(* Nudges and flags on one machine: the machine of the open modal is      *)
(* nudged, flagged, reported and started again while the timer runs.      *)

Seeds ==
  {SeedMachine("FREE", None, None), SeedMachine("AWAITING", None, Some(0 - TickMs))}
  \cup {SeedMachine("RUNNING", Some(e), None) : e \in SeedEtas}

InitNudge ==
  /\ InitCommon
  /\ \E seed \in Seeds :
       machines = [m \in MachineIds |->
                     IF m = 1 THEN seed ELSE SeedMachine("FREE", None, None)]
  /\ mode = "auto"
  /\ stored = Aggregate

NudgeBudget == Len(notices) < MaxNudgeNotices

NudgeStartWash == NudgeBudget /\ startWash(1, 1)

NudgeNudge == NudgeBudget /\ nudgeMachine(1)

NudgeFlag == NudgeBudget /\ flagMachine(1)

NudgeReport ==
  NudgeBudget /\ \E a \in BOOLEAN : submitReport(1, "Not working", a)

NudgeTick == ticks < MaxNoticeTicks /\ tick

NextNudge ==
  \/ NudgeStartWash
  \/ NudgeNudge
  \/ NudgeFlag
  \/ NudgeReport
  \/ NudgeTick

SpecNudge == InitNudge /\ [][NextNudge]_vars

(* The notice list, below its cap, is the log of the operations: the      *)
(* notices about machine m that are newer than the newest one of titles.  *)
LogSince(m, titles) ==
  LET marks == {j \in 1 .. Len(notices) :
                  notices[j].about = m /\ notices[j].title \in titles}
      last == IF marks = {} THEN Len(notices) + 1
              ELSE CHOOSE j \in marks : \A k \in marks : j <= k
  IN  {j \in 1 .. (last - 1) : notices[j].about = m}

FlagTitles == {"Flag recorded", "flagged as still occupied"}
NudgeTitles == {"A nudge was sent", "Multiple nudges sent"}

FlagsSince(m, titles) ==
  Cardinality({j \in LogSince(m, titles) : notices[j].title \in FlagTitles})

NudgesSince(m, titles) ==
  Cardinality({j \in LogSince(m, titles) : notices[j].title \in NudgeTitles})

(* C15: on an AWAITING machine, the first flagMachine call since the last *)
(* cycle start leaves the status as it is, sets flagCount to 1 and emits  *)
(* an info notice; the second sets flagCount and nudgeCount to 0, leaves  *)
(* the status AWAITING, sets lastCompletedAt to the time of the call and  *)
(* emits a report-kind notice.                                            *)
SecondFlagResets ==
  [][(call'.op = "flagMachine" /\ machines[call'.id].status = "AWAITING") =>
       LET m == call'.id
           k == FlagsSince(m, {"Started wash"})
       IN  /\ Len(NewNotices) = 1
           /\ (k = 0) => /\ machines'[m].status = machines[m].status
                         /\ machines'[m].flagCount = Some(1)
                         /\ machines'[m].nudgeCount = machines[m].nudgeCount
                         /\ machines'[m].lastCompletedAt = machines[m].lastCompletedAt
                         /\ NewNotices[1].kind = "info"
           /\ (k = 1) => /\ machines'[m].status = "AWAITING"
                         /\ machines'[m].flagCount = Some(0)
                         /\ machines'[m].nudgeCount = Some(0)
                         /\ machines'[m].lastCompletedAt = Some(now)
                         /\ NewNotices[1].kind = "report"]_vars

(* an AWAITING machine that had been nudged was flagged a second time, at *)
(* a later time than the first                                            *)
SecondFlagResetsWitness ==
  /\ call.op = "flagMachine"
  /\ notices[1].kind = "report"
  /\ machines[call.id].status = "AWAITING"
  /\ machines[call.id].lastCompletedAt = Some(now)
  /\ now > 0
  /\ \E j \in 2 .. Len(notices) :
       notices[j].title = "Flag recorded" /\ notices[j].id < now
  /\ \E j \in 2 .. Len(notices) : notices[j].title \in NudgeTitles

(* the k-th nudge since the newest notice of titles: info for k <= 2,     *)
(* warning for k >= 3                                                     *)
NudgeKinds(titles) ==
  call'.op = "nudgeMachine" =>
    LET k == NudgesSince(call'.id, titles) + 1
    IN  IF k <= 2
        THEN Len(NewNotices) = 1 /\ NewNotices[1].kind = "info"
        ELSE \E i \in 1 .. Len(NewNotices) : NewNotices[i].kind = "warning"

(* C16 as stated: counting nudgeMachine calls on a machine since its last *)
(* startWash, calls 1 and 2 emit an info notice and call 3 and later a    *)
(* warning, whatever ticks, flags and reports happen in between.          *)
ThirdNudgeWarnsSinceStart ==
  [][NudgeKinds({"Started wash"})]_vars

(* C16 amended: counting nudgeMachine calls on a machine since its last   *)
(* startWash or, if later, its last flagMachine call that reached two     *)
(* flags, calls 1 and 2 emit an info notice and call 3 and later a        *)
(* warning, whatever ticks, single flags and reports happen in between.   *)
ThirdNudgeWarns ==
  [][NudgeKinds({"Started wash", "flagged as still occupied"})]_vars

(* the third nudge has just given the warning, with a flag and a report   *)
(* between the nudges                                                     *)
ThirdNudgeWarnsWitness ==
  /\ call.op = "nudgeMachine"
  /\ notices[1].kind = "warning"
  /\ \E j \in 2 .. Len(notices) : notices[j].title = "Flag recorded"
  /\ \E j \in 2 .. Len(notices) : notices[j].title = "Report submitted"

----------------------------------------------------------------------------
(* Watching a floor: the "notify me" button of the busy banner sets the   *)
(* floor's flag, washes are started and collected, and the minute timer   *)
(* runs without end.                                                      *)

(* the click handler of the watch-free button *)
watchFloor(f) ==
  /\ watchFree' = [watchFree EXCEPT ![f] = TRUE]
  /\ call' = Call("watchFloor", f, "")
  /\ UNCHANGED <<machines, washes, reports, notices, user, clockVars,
                 bookingVars, procVars>>
  /\ saveState

(* the interval callback at time t, the tick counter going to k *)
tickAt(t, k) ==
  LET c == countdown(1, machines, washes, notices, t)
      w == checkWatchFree(1, watchFree, c.notices, machines, c.machines, t)
  IN  /\ now' = t
      /\ ticks' = k
      /\ machines' = c.machines
      /\ washes' = c.washes
      /\ watchFree' = w.watchFree
      /\ notices' = w.notices
      /\ call' = Call("tick", 0, "")
      /\ UNCHANGED <<reports, user, bookingVars>>
      /\ replaces(Counting(machines))
      /\ saveState

InitWatch ==
  /\ InitCommon
  /\ machines \in makeMachines
  /\ mode = "auto"
  /\ stored = Aggregate

WatchBudget == Len(notices) < MaxWatchNotices

(* the busy banner that holds the button is shown when no machine of the  *)
(* floor is FREE                                                          *)
WatchFloor ==
  \E f \in Floors : FreeCount(machines, f) = 0 /\ ~watchFree[f] /\ watchFloor(f)

WatchStartWash ==
  WatchBudget /\ \E m \in MachineIds, minutes \in CycleMinutes : startWash(m, minutes)

WatchCollect == WatchBudget /\ \E m \in MachineIds : markCollected(m)

(* The timer never stops.  The clock is followed for MaxWatchTicks        *)
(* minutes and from then on only modulo two minutes.                      *)
WatchTick ==
  IF ticks < MaxWatchTicks
  THEN tickAt(now + TickMs, ticks + 1)
  ELSE tickAt(now - TickMs, ticks - 1)

NextWatch ==
  \/ WatchFloor
  \/ WatchStartWash
  \/ WatchCollect
  \/ WatchTick

SpecWatch == InitWatch /\ [][NextWatch]_vars

(* setInterval keeps calling the callback *)
SpecWatchFair == SpecWatch /\ WF_vars(WatchTick)

(* machines after a tick's transitions, as far as the check reads them *)
Snapshots ==
  [MachineIds -> {SeedMachine("FREE", None, None),
                  SeedMachine("AWAITING", None, Some(0))}]

FreeNotices(ns, f) ==
  {i \in 1 .. Len(ns) :
     /\ ns[i].title = "A machine is now free"
     /\ ns[i].about = f
     /\ ns[i].kind = "success"}

(* the watch-free check, given the flags and notices before it and after  *)
(* it and the machines before and after the tick's transitions            *)
WatchChecked(f, wf0, ns0, wf1, ns1, before, after) ==
  IF wf0[f] /\ FreeCount(before, f) = 0 /\ FreeCount(after, f) > 0
  THEN /\ wf1[f] = FALSE
       /\ Cardinality(FreeNotices(ns1, f)) = Cardinality(FreeNotices(ns0, f)) + 1
  ELSE /\ wf1[f] = wf0[f]
       /\ Cardinality(FreeNotices(ns1, f)) = Cardinality(FreeNotices(ns0, f))

(* C12: in each tick, a floor whose watch-free flag is true gets a        *)
(* "machine is now free" success notice and its flag reset if and only if *)
(* its count of FREE machines was 0 before the tick's transitions and     *)
(* above 0 after them; otherwise no such notice is emitted and the flag   *)
(* stays as it was, and a floor whose flag is false is never notified.    *)
(* The check is stated for the tick steps and for the check applied to    *)
(* any other machines after the transitions.                              *)
WatchNoticeOnRiseFromZero ==
  /\ [](\A after \in Snapshots, f \in Floors :
          LET out == checkWatchFree(1, watchFree, notices, machines, after,
                                    now + TickMs)
          IN  WatchChecked(f, watchFree, notices, out.watchFree, out.notices,
                           machines, after))
  /\ [][call'.op = "tick" =>
          \A f \in Floors :
            LET c == countdown(1, machines, washes, notices, now')
            IN  WatchChecked(f, watchFree, c.notices, watchFree', notices',
                             machines, machines')]_vars

(* a tick has left a watched floor without a FREE machine: the flag is    *)
(* still set and no notice was given                                      *)
WatchNoticeOnRiseFromZeroWitness ==
  /\ call.op = "tick"
  /\ \E f \in Floors :
       /\ watchFree[f]
       /\ FreeCount(machines, f) = 0
       /\ FreeNotices(notices, f) = {}
  /\ \E m \in MachineIds : machines[m].lastCompletedAt = Some(now)

(* C13: once the flag of a floor is set while the floor has no FREE       *)
(* machine and a machine of the floor then becomes FREE, a "machine is    *)
(* now free" notice is eventually emitted for the floor and the flag is   *)
(* reset, the timer firing for ever.                                      *)
WatcherEventuallyNotified ==
  \A f \in Floors :
    (watchFree[f] /\ FreeCount(machines, f) > 0)
      ~> (~watchFree[f] /\ FreeNotices(notices, f) # {})

----------------------------------------------------------------------------
(* The minute timer of one process: startTick is invoked any number of    *)
(* times, and every minute each registered interval runs its callback.    *)

startTickUnguarded ==
  /\ tickIntervalStarted' = TRUE
  /\ intervals' = intervals + 1
  /\ call' = Call("startTick", IF tickIntervalStarted THEN 1 ELSE 0, "")
  /\ UNCHANGED <<machineVars, notices, clockVars, bookingVars,
                 liveStatusFetchInFlight, refreshes, live, fetches>>
  /\ stored' = stored

(* call.id tells a repeated invocation (1) from the first (0) *)
startTick ==
  /\ IF tickIntervalStarted
     THEN UNCHANGED <<tickIntervalStarted, intervals>>
     ELSE tickIntervalStarted' = TRUE /\ intervals' = intervals + 1
  /\ call' = Call("startTick", IF tickIntervalStarted THEN 1 ELSE 0, "")
  /\ UNCHANGED <<machineVars, notices, clockVars, bookingVars,
                 liveStatusFetchInFlight, refreshes, live, fetches>>
  /\ stored' = stored

(* one run of the interval callback at time t *)
callback(st, t) ==
  LET c == countdown(1, st.machines, st.washes, st.notices, t)
      w == checkWatchFree(1, st.watchFree, c.notices, st.machines, c.machines, t)
  IN  [machines |-> c.machines, washes |-> c.washes,
       watchFree |-> w.watchFree, notices |-> w.notices]

RECURSIVE callbacks(_, _, _)
callbacks(k, st, t) ==
  IF k = 0 THEN st ELSE callbacks(k - 1, callback(st, t), t)

(* a minute elapses: every registered interval fires once *)
minuteElapses ==
  LET t == now + TickMs
      out == callbacks(intervals,
                       [machines |-> machines, washes |-> washes,
                        watchFree |-> watchFree, notices |-> notices], t)
  IN  /\ now' = t
      /\ ticks' = ticks + 1
      /\ machines' = out.machines
      /\ washes' = out.washes
      /\ watchFree' = out.watchFree
      /\ notices' = out.notices
      /\ call' = Call("minute", intervals, "")
      /\ UNCHANGED <<reports, user, bookingVars>>
      /\ replaces(IF intervals > 0 THEN Counting(machines) ELSE {})
      /\ saveState

(* the script has been loaded and no handler has run yet *)
InitLoaded ==
  /\ tickIntervalStarted = FALSE
  /\ intervals = 0
  /\ liveStatusFetchInFlight = FALSE
  /\ refreshes = <<>>
  /\ live = [liveAvailability |-> None, liveLog |-> None]
  /\ fetches = 0

InitTimer ==
  /\ InitAggregate
  /\ InitLoaded
  /\ bookings = <<>>
  /\ machines \in makeMachines
  /\ mode = "auto"
  /\ stored = Aggregate

StartTick == startTick

(* one wash is started in the run *)
TimerStartWash ==
  /\ washes = <<>>
  /\ \E m \in MachineIds, minutes \in CycleMinutes : startWash(m, minutes)

MinuteElapses == ticks < MaxTimerMinutes /\ minuteElapses

NextTimer ==
  \/ StartTick
  \/ TimerStartWash
  \/ MinuteElapses

SpecTimer == InitTimer /\ [][NextTimer]_vars

(* C17: however often startTick is invoked, at most one interval is       *)
(* registered, and once it is, each elapsed minute takes exactly 1 off    *)
(* the eta of every RUNNING machine (finishing it at 0 or below).         *)
SingleInterval ==
  /\ [](intervals <= 1 /\ (tickIntervalStarted <=> intervals = 1))
  /\ [][(call'.op = "minute" /\ tickIntervalStarted) =>
          \A m \in MachineIds :
            (machines[m].status = "RUNNING" /\ machines[m].eta # None)
            => IF Val(machines[m].eta) - 1 <= 0
               THEN machines'[m].status = "AWAITING" /\ machines'[m].eta = None
               ELSE /\ machines'[m].status = "RUNNING"
                    /\ machines'[m].eta = Some(Val(machines[m].eta) - 1)]_vars

(* startTick has been invoked again after two minutes in which the one    *)
(* interval took 2 off a seeded eta                                       *)
SingleIntervalWitness ==
  /\ call.op = "startTick"
  /\ call.id = 1
  /\ intervals = 1
  /\ ticks = 2
  /\ \E m \in MachineIds : machines[m].eta = Some(SeedEtaMin - 2)

----------------------------------------------------------------------------
(* The live-status refresh of the designated machine.  An invocation that *)
(* has passed the guard is suspended at its status request and then at    *)
(* its log request; no other handler runs in this specification.          *)

StatusResponses == {"fail", "available", "busy", "garbled"}
LogResponses == {"fail", "door opened", ""}

parseAvailabilityFromPayload(payload) ==
  CASE payload = "available" -> Some(TRUE)
    [] payload = "busy" -> Some(FALSE)
    [] OTHER -> None

parseLogSnippet(payload) ==
  IF payload = "" THEN None ELSE Some(payload)

refreshUnguarded ==
  /\ liveStatusFetchInFlight' = TRUE
  /\ refreshes' = Append(refreshes, [pc |-> "status", liveAvailability |-> None,
                                     statusFailed |-> FALSE,
                                     detached |-> FALSE])
  /\ fetches' = fetches + 1
  /\ live' = live
  /\ call' = Call("refresh", IF liveStatusFetchInFlight THEN 1 ELSE 0, "")
  /\ UNCHANGED <<machineVars, notices, clockVars, bookingVars,
                 tickIntervalStarted, intervals>>
  /\ stored' = stored

(* state.machines.find((m) => isLiveMachine(m)) finds a machine: M-1A is *)
(* machine 1 of the registry                                              *)
targetFound == 1 \in DOMAIN machines

(* refreshLiveMachineFromBackend up to its first await; call.id tells a   *)
(* call that met the guard (1) and one that found no designated machine   *)
(* and left through finally (2) from one that went on (0)                 *)
refreshLiveMachineFromBackend ==
  /\ IF liveStatusFetchInFlight
     THEN UNCHANGED <<liveStatusFetchInFlight, refreshes, fetches>>
     ELSE IF ~targetFound
     THEN /\ liveStatusFetchInFlight' = FALSE
          /\ UNCHANGED <<refreshes, fetches>>
     ELSE /\ liveStatusFetchInFlight' = TRUE
          /\ refreshes' = Append(refreshes,
                                 [pc |-> "status", liveAvailability |-> None,
                                  statusFailed |-> FALSE,
                                  detached |-> FALSE])
          /\ fetches' = fetches + 1
  /\ live' = live
  /\ call' = Call("refresh",
                  IF liveStatusFetchInFlight THEN 1
                  ELSE IF ~targetFound THEN 2 ELSE 0, "")
  /\ UNCHANGED <<machineVars, notices, clockVars, bookingVars,
                 tickIntervalStarted, intervals>>
  /\ stored' = stored

(* the status request of invocation i settles; the log request is sent *)
statusResponds(i, resp) ==
  /\ refreshes' = [refreshes EXCEPT ![i] =
                     [pc |-> "log",
                      liveAvailability |->
                        IF resp = "fail" THEN None
                        ELSE parseAvailabilityFromPayload(resp),
                      statusFailed |-> (resp = "fail"),
                      detached |-> refreshes[i].detached]]
  /\ fetches' = fetches + 1
  /\ call' = Call("statusResponds", i, "")
  /\ UNCHANGED <<machineVars, notices, clockVars, bookingVars,
                 tickIntervalStarted, intervals, liveStatusFetchInFlight, live>>
  /\ stored' = stored

(* the log request of invocation i settles; the values are written and    *)
(* the guard is released.  call.id: 1 if the status request had failed,   *)
(* plus 2 if the log request failed                                       *)
logRespondsKeepsGuard(i, resp) ==
  /\ live' = [liveAvailability |-> refreshes[i].liveAvailability,
              liveLog |-> IF resp = "fail" THEN None ELSE parseLogSnippet(resp)]
  /\ refreshes' = SubSeq(refreshes, 1, i - 1)
                  \o SubSeq(refreshes, i + 1, Len(refreshes))
  /\ call' = Call("refreshDone",
                  (IF refreshes[i].statusFailed THEN 1 ELSE 0)
                  + (IF resp = "fail" THEN 2 ELSE 0), "")
  /\ UNCHANGED <<machineVars, notices, clockVars, bookingVars,
                 tickIntervalStarted, intervals, fetches,
                 liveStatusFetchInFlight>>
  /\ saveState

logRespondsStoringStatus(i, resp) ==
  /\ live' = [liveAvailability |-> refreshes[i].liveAvailability,
              liveLog |-> IF resp = "fail" THEN None ELSE parseLogSnippet(resp)]
  /\ machines' = [machines EXCEPT ![1].status =
                    IF live'.liveAvailability = None THEN @
                    ELSE IF Val(live'.liveAvailability) THEN "FREE" ELSE "MAINT"]
  /\ refreshes' = SubSeq(refreshes, 1, i - 1)
                  \o SubSeq(refreshes, i + 1, Len(refreshes))
  /\ liveStatusFetchInFlight' = FALSE
  /\ call' = Call("refreshDone",
                  (IF refreshes[i].statusFailed THEN 1 ELSE 0)
                  + (IF resp = "fail" THEN 2 ELSE 0), "")
  /\ UNCHANGED <<washes, reports, watchFree, user, notices, clockVars,
                 bookingVars, tickIntervalStarted, intervals, fetches>>
  /\ saveState

logResponds(i, resp) ==
  /\ live' = IF refreshes[i].detached THEN live
             ELSE [liveAvailability |-> refreshes[i].liveAvailability,
                   liveLog |-> IF resp = "fail" THEN None
                               ELSE parseLogSnippet(resp)]
  /\ refreshes' = SubSeq(refreshes, 1, i - 1)
                  \o SubSeq(refreshes, i + 1, Len(refreshes))
  /\ liveStatusFetchInFlight' = FALSE
  /\ call' = Call("refreshDone",
                  (IF refreshes[i].statusFailed THEN 1 ELSE 0)
                  + (IF resp = "fail" THEN 2 ELSE 0), "")
  /\ UNCHANGED <<machineVars, notices, clockVars, bookingVars,
                 tickIntervalStarted, intervals, fetches>>
  /\ saveState

InitLive ==
  /\ InitCommon
  /\ machines = [m \in MachineIds |-> SeedMachine("FREE", None, None)]
  /\ mode = "auto"
  /\ stored = Aggregate

(* visibilitychange, a hostel change or the page start calls the refresh *)
LiveRefresh == fetches < MaxFetches /\ refreshLiveMachineFromBackend

LiveStatusResponds ==
  \E i \in 1 .. Len(refreshes), resp \in StatusResponses :
    refreshes[i].pc = "status" /\ statusResponds(i, resp)

LiveLogResponds ==
  \E i \in 1 .. Len(refreshes), resp \in LogResponses :
    refreshes[i].pc = "log" /\ logResponds(i, resp)

NextLive ==
  \/ LiveRefresh
  \/ LiveStatusResponds
  \/ LiveLogResponds

SpecLive == InitLive /\ [][NextLive]_vars

(* C18: at most one live-status refresh is in flight; a call made while   *)
(* one is awaiting its requests sends no request, writes nothing, and is  *)
(* not queued: when the refresh in flight ends, none is left.             *)
OneRefreshInFlight ==
  /\ [](Len(refreshes) <= 1 /\ (liveStatusFetchInFlight <=> refreshes # <<>>))
  /\ [][/\ (call'.op = "refresh" /\ refreshes # <<>>)
             => UNCHANGED <<refreshes, fetches, live, liveStatusFetchInFlight,
                            machineVars, notices, bookingVars>>
        /\ (call'.op = "refreshDone")
             => (refreshes' = <<>> /\ fetches' = fetches)]_vars

(* a call has just been dropped while a refresh was awaiting its log      *)
(* request                                                                *)
OneRefreshInFlightWitness ==
  /\ call.op = "refresh"
  /\ call.id = 1
  /\ Len(refreshes) = 1
  /\ refreshes[1].pc = "log"

(* C19: when a request of a refresh fails, the stored live availability   *)
(* (status request) or log snippet (log request) stays as it was.         *)
FailedFetchKeepsLastKnown ==
  [][call'.op = "refreshDone" =>
       /\ (call'.id \in {1, 3}) => live'.liveAvailability = live.liveAvailability
       /\ (call'.id \in {2, 3}) => live'.liveLog = live.liveLog]_vars

----------------------------------------------------------------------------
(* Decisions on arbitrary stored bookings: the ledger is loaded with any  *)
(* list of up to MaxProbeBookings bookings in any status, and bookings    *)
(* are approved, rejected and cancelled by id, known or not.              *)

InitDecide ==
  /\ InitBase
  /\ machines = [m \in MachineIds |-> SeedMachine("FREE", None, None)]
  /\ mode \in {"auto", "admin"}
  /\ \E l \in StoredLists :
       bookings = [i \in 1 .. Len(l) |-> StoredBooking(l[i], Len(l) - i + 1)]
  /\ stored = Aggregate

DecideApprove ==
  /\ mode = "admin"
  /\ \E id \in BookingIds : Ran("approveBooking", id, approveBooking(id))

DecideReject ==
  /\ mode = "admin"
  /\ \E id \in BookingIds : Ran("rejectBooking", id, rejectBooking(id))

DecideCancel ==
  \E id \in BookingIds : Ran("cancelBooking", id, cancelBooking(id))

NextDecide ==
  \/ DecideApprove
  \/ DecideReject
  \/ DecideCancel

SpecDecide == InitDecide /\ [][NextDecide]_vars

(* the call just made changed at most the booking it names, and only if   *)
(* that booking exists in one of the statuses from                        *)
DecidedOnlyFrom(from) ==
  LET idx == findIndex(call'.id)
  IN  IF idx > 0 /\ bookings[idx].status \in from
      THEN /\ Len(bookings') = Len(bookings)
           /\ \A i \in 1 .. Len(bookings) : i # idx => bookings'[i] = bookings[i]
      ELSE /\ call'.alert = ""
           /\ bookings' = bookings
           /\ notices' = notices

(* C20: approveBooking and rejectBooking change only an existing PENDING  *)
(* booking, cancelBooking only an existing PENDING or APPROVED one; any   *)
(* other call raises no alert and leaves bookings and notices as they     *)
(* were.                                                                  *)
DecisionsGuarded ==
  [][/\ (call'.op \in {"approveBooking", "rejectBooking"})
          => DecidedOnlyFrom({"PENDING"})
     /\ (call'.op = "cancelBooking")
          => DecidedOnlyFrom({"PENDING", "APPROVED"})]_vars

(* a booking that is not PENDING has just been approved to no effect; a   *)
(* cancelled booking is never approved                                    *)
DecisionsGuardedWitness ==
  /\ call.op = "approveBooking"
  /\ notices = <<>>
  /\ \E i \in 1 .. Len(bookings) :
       bookings[i].id = call.id /\ bookings[i].status \in {"REJECTED", "CANCELLED"}

----------------------------------------------------------------------------
(* The life of stored bookings: the ledger is loaded with any list of up  *)
(* to MaxProbeBookings bookings in any status, and every operation on a   *)
(* stored booking, the approval timeout included, is applied to it.       *)

StatusFields ==
  {f \in [roomId : Rooms, startAt : TimesOfDay, endAt : TimesOfDay,
          status : Statuses] : f.startAt < f.endAt}

StatusLists ==
  UNION {[1 .. n -> StatusFields] : n \in 0 .. MaxProbeBookings}

InitStatus ==
  /\ InitBase
  /\ machines = [m \in MachineIds |-> SeedMachine("FREE", None, None)]
  /\ mode \in {"auto", "admin"}
  /\ \E l \in StatusLists :
       bookings = [i \in 1 .. Len(l) |-> StoredBooking(l[i], Len(l) - i + 1)]
  /\ stored = Aggregate

StatusBudget == Len(notices) < MaxStatusNotices
StatusIds == 1 .. (MaxProbeBookings + 1)

StatusTimeout ==
  /\ StatusBudget
  /\ timers # <<>>
  /\ LET out == approvalTimeout(Head(timers))
     IN  Ran("approvalTimeout", Head(timers), [out EXCEPT !.timers = Tail(timers)])

StatusApprove ==
  /\ StatusBudget
  /\ mode = "admin"
  /\ \E id \in StatusIds : Ran("approveBooking", id, approveBooking(id))

StatusReject ==
  /\ StatusBudget
  /\ mode = "admin"
  /\ \E id \in StatusIds : Ran("rejectBooking", id, rejectBooking(id))

StatusCancel ==
  StatusBudget /\ \E id \in StatusIds : Ran("cancelBooking", id, cancelBooking(id))

StatusExtend ==
  /\ StatusBudget
  /\ \E id \in StatusIds, e \in TimesOfDay :
       Ran("extendBooking", id, extendBooking(id, e))

StatusModify ==
  /\ StatusBudget
  /\ \E id \in StatusIds, st \in TimesOfDay, e \in TimesOfDay, nr \in NewReasons :
       Ran("modifyBooking", id, modifyBooking(id, st, e, nr))

NextStatus ==
  \/ StatusTimeout
  \/ StatusApprove
  \/ StatusReject
  \/ StatusCancel
  \/ StatusExtend
  \/ StatusModify

SpecStatus == InitStatus /\ [][NextStatus]_vars

StatusEdges ==
  {<<"PENDING", "APPROVED">>, <<"PENDING", "REJECTED">>,
   <<"PENDING", "CANCELLED">>, <<"APPROVED", "CANCELLED">>,
   <<"APPROVED", "PENDING">>}

----------------------------------------------------------------------------
(* The registry driven through what the pages offer: the machine dialog   *)
(* offers Start on a FREE machine and Nudge, Flag and Mark collected on   *)
(* an AWAITING one, My Washes offers Collected on an AWAITING wash, and   *)
(* the report form is open to every machine.                              *)

FormReasons == {"Not working", "Needs cleanup", "Leaking water", "Other"}
SevereReasons == {"Not working", "Leaking water"}

(* the Submit button of openReportForm *)
reportSubmitClick(m, reason, checked) ==
  submitReport(m, reason, checked /\ reason \in SevereReasons)

InitPages ==
  /\ InitCommon
  /\ machines \in makeMachines
  /\ mode = "auto"
  /\ stored = Aggregate

PageBudget == Len(notices) < MaxPageNotices

PageStart ==
  /\ PageBudget
  /\ \E m \in MachineIds, minutes \in CycleMinutes :
       machines[m].status = "FREE" /\ startWash(m, minutes)

(* the Nudge owner button of the modal a machine card has opened: the     *)
(* modal holds the copy { ...m, effectiveStatus } made by updateLaundryView *)
(* and nudgeMachine counts on that copy                                   *)
nudgeBtnClick(m) ==
  LET n == Count(machines[m].nudgeCount) + 1
      copy == [machines[m] EXCEPT !.nudgeCount = Some(n)]
  IN  /\ notices' =
           IF n >= 3
           THEN sendReminderEmail(
                  pushNotice(notices, "Multiple nudges sent", m, "warning", now),
                  copy, m, now)
           ELSE pushNotice(notices, "A nudge was sent", m, "info", now)
      /\ call' = Call("nudgeMachine", m, "")
      /\ UNCHANGED <<machineVars, clockVars, bookingVars, procVars>>
      /\ saveState

(* the Flag clothes button of the same modal: flagMachine on the copy *)
flagBtnClick(m) ==
  LET f == Count(machines[m].flagCount) + 1
  IN  /\ notices' =
           IF f >= 2
           THEN pushNotice(notices, "flagged as still occupied", m, "report", now)
           ELSE pushNotice(notices, "Flag recorded", m, "info", now)
      /\ call' = Call("flagMachine", m, "")
      /\ UNCHANGED <<machineVars, clockVars, bookingVars, procVars>>
      /\ saveState

PageNudge ==
  /\ PageBudget
  /\ \E m \in MachineIds : machines[m].status = "AWAITING" /\ nudgeBtnClick(m)

PageFlag ==
  /\ PageBudget
  /\ \E m \in MachineIds : machines[m].status = "AWAITING" /\ flagBtnClick(m)

(* the View button of a wash row of My Washes opens the modal on the      *)
(* machine of state.machines itself                                       *)
Viewed(m) ==
  \E i \in 1 .. Len(washes) :
    washes[i].machineId = m /\ washes[i].status \in {"RUNNING", "AWAITING"}

ViewNudge ==
  /\ PageBudget
  /\ \E m \in MachineIds :
       Viewed(m) /\ machines[m].status = "AWAITING" /\ nudgeMachine(m)

ViewFlag ==
  /\ PageBudget
  /\ \E m \in MachineIds :
       Viewed(m) /\ machines[m].status = "AWAITING" /\ flagMachine(m)

PageCollect ==
  /\ PageBudget
  /\ \E m \in MachineIds : machines[m].status = "AWAITING" /\ markCollected(m)

(* the Collected button of a wash row of My Washes *)
WashCollected ==
  /\ PageBudget
  /\ \E i \in 1 .. Len(washes) :
       washes[i].status = "AWAITING" /\ markCollected(washes[i].machineId)

PageReport ==
  /\ PageBudget
  /\ \E m \in MachineIds, reason \in FormReasons, checked \in BOOLEAN :
       reportSubmitClick(m, reason, checked)

PageTick == ticks < MaxNoticeTicks /\ tick

NextPages ==
  \/ PageStart
  \/ PageNudge
  \/ PageFlag
  \/ ViewNudge
  \/ ViewFlag
  \/ PageCollect
  \/ WashCollected
  \/ PageReport
  \/ PageTick

SpecPages == InitPages /\ [][NextPages]_vars

MachineEdges ==
  {<<"FREE", "RUNNING">>, <<"RUNNING", "AWAITING">>, <<"AWAITING", "FREE">>}
  \cup {<<st, "MAINT">> : st \in {"FREE", "RUNNING", "AWAITING"}}

(* C22: under ticks and the actions the pages offer, a machine's status   *)
(* changes only along FREE->RUNNING, RUNNING->AWAITING, AWAITING->FREE    *)
(* and any status->MAINT; a machine in MAINT never changes status again.  *)
MachineTransitions ==
  [][\A m \in MachineIds :
       machines'[m].status # machines[m].status
         => <<machines[m].status, machines'[m].status>> \in MachineEdges]_vars

----------------------------------------------------------------------------
(* Collecting: cycles are started and finished, and markCollected is      *)
(* called on any machine, twice in a row included.                        *)

CollectMark == CycleBudget /\ \E m \in MachineIds : markCollected(m)

NextCollect ==
  \/ CycleStartWash
  \/ CycleTick
  \/ CollectMark

InitCollect ==
  /\ InitCommon
  /\ machines \in makeMachines
  /\ mode = "auto"
  /\ stored = Aggregate

SpecCollect == InitCollect /\ [][NextCollect]_vars

(* C23: markCollected(m) sets m to FREE with eta and lastCompletedAt      *)
(* cleared, turns every RUNNING or AWAITING wash of m into COLLECTED with *)
(* endAt set, leaves other machines and their washes alone and emits one  *)
(* notice; a second call in a row changes neither machines nor washes.    *)
MarkCollectedFrees ==
  [][call'.op = "markCollected" =>
       LET m == call'.id
       IN  /\ machines'[m].status = "FREE"
           /\ machines'[m].eta = None
           /\ machines'[m].lastCompletedAt = None
           /\ \A o \in MachineIds \ {m} : machines'[o] = machines[o]
           /\ Len(washes') = Len(washes)
           /\ \A i \in 1 .. Len(washes) :
                IF washes[i].machineId = m /\ washes[i].status \in {"RUNNING", "AWAITING"}
                THEN washes'[i] = [washes[i] EXCEPT !.status = "COLLECTED",
                                                    !.endAt = Some(now)]
                ELSE washes'[i] = washes[i]
           /\ Len(NewNotices) = 1
           /\ Tail(notices') = notices
           /\ (call.op = "markCollected" /\ call.id = m)
                => (machines' = machines /\ washes' = washes)]_vars

(* markCollected has run twice in a row on a machine whose running wash   *)
(* the first call collected                                               *)
MarkCollectedFreesWitness ==
  /\ call.op = "markCollected"
  /\ Len(notices) = 3
  /\ notices[1].title = "is free now" /\ notices[1].about = call.id
  /\ notices[2].title = "is free now" /\ notices[2].about = call.id
  /\ notices[3].title = "Started wash" /\ notices[3].about = call.id
  /\ \E i \in 1 .. Len(washes) :
       washes[i].machineId = call.id /\ washes[i].status = "COLLECTED"

----------------------------------------------------------------------------
(* Reports: submitReport is called with any reason and flag, and the      *)
(* report form is submitted with any reason and checkbox, on seeded       *)
(* machines and on machines earlier reports have put in MAINT.            *)

InitReport ==
  /\ InitCommon
  /\ machines \in makeMachines
  /\ mode = "auto"
  /\ stored = Aggregate

ReportBudget == Len(notices) < MaxReportNotices

ReportCall ==
  /\ ReportBudget
  /\ \E m \in MachineIds, reason \in FormReasons, a \in BOOLEAN :
       submitReport(m, reason, a)

ReportClick ==
  /\ ReportBudget
  /\ \E m \in MachineIds, reason \in FormReasons, checked \in BOOLEAN :
       reportSubmitClick(m, reason, checked)

NextReport ==
  \/ ReportCall
  \/ ReportClick

SpecReport == InitReport /\ [][NextReport]_vars

(* C24: submitReport prepends exactly one report record and emits exactly *)
(* one report-kind notice; with affectStatus true it sets the machine to  *)
(* MAINT and clears its eta whatever its status was, with affectStatus    *)
(* false it leaves every machine unchanged; the form's Submit button      *)
(* changes a machine only for the reasons 'Not working' and 'Leaking      *)
(* water' with the checkbox set.                                          *)
SubmitReportEffects ==
  [][call'.op = "submitReport" =>
       /\ Len(reports') = Len(reports) + 1
       /\ Tail(reports') = reports
       /\ reports'[1].machineId = call'.id
       /\ Len(NewNotices) = 1
       /\ NewNotices[1].kind = "report"
       /\ Tail(notices') = notices
       /\ washes' = washes
       /\ \A m \in MachineIds, reason \in FormReasons, a \in BOOLEAN :
            submitReport(m, reason, a)
            => IF a
               THEN /\ machines'[m].status = "MAINT"
                    /\ machines'[m].eta = None
                    /\ \A o \in MachineIds \ {m} : machines'[o] = machines[o]
               ELSE machines' = machines
       /\ \A m \in MachineIds, reason \in FormReasons, checked \in BOOLEAN :
            (reportSubmitClick(m, reason, checked) /\ machines' # machines)
            => (checked /\ reason \in {"Not working", "Leaking water"})]_vars

(* a severe report has put a machine in MAINT after a report on the same  *)
(* machine that changed nothing, while another machine is still running   *)
SubmitReportEffectsWitness ==
  /\ call.op = "submitReport"
  /\ machines[call.id].status = "MAINT"
  /\ machines[call.id].eta = None
  /\ Len(reports) = 2
  /\ reports[1].reason = "Leaking water"
  /\ reports[2].machineId = call.id
  /\ \E o \in MachineIds : machines[o].status = "RUNNING"

----------------------------------------------------------------------------
(* Persistence: every operation that writes the aggregate, of the         *)
(* registry, the ledger and the live refresh, in one run, on a seeded     *)
(* machine and a ledger that is empty or holds one booking.               *)

InitPersist ==
  /\ InitBase
  /\ bookings \in {<<>>}
       \cup {<<StoredBooking([roomId |-> 1, startAt |-> 0, endAt |-> HalfDayMs,
                               status |-> st], 1)>> : st \in Statuses}
  /\ \E seed \in Seeds :
       machines = [m \in MachineIds |->
                     IF m = 1 THEN seed ELSE SeedMachine("FREE", None, None)]
  /\ mode \in {"auto", "admin"}
  /\ stored = Aggregate

PersistBudget == Len(notices) < MaxPersistNotices

(* the registry operations act on machine 1, the ledger operations on    *)
(* the one booking and on an id no booking has                            *)
PersistIds == {1, 2}

PersistStartWash == PersistBudget /\ startWash(1, 1)

PersistCollect == PersistBudget /\ markCollected(1)

PersistNudge == PersistBudget /\ nudgeMachine(1)

PersistFlag == PersistBudget /\ flagMachine(1)

PersistReport ==
  PersistBudget /\ \E a \in BOOLEAN : submitReport(1, "Not working", a)

PersistTick == ticks < MaxNoticeTicks /\ tick

PersistWatch == ~watchFree[1] /\ watchFloor(1)

PersistSubmit ==
  /\ PersistBudget
  /\ \E reason \in Reasons :
       Ran("submitClick", 1, submitClick(1, TRUE, 0, 0, HalfDayMs, DayMs, reason))

PersistTimeout ==
  /\ timers # <<>>
  /\ LET out == approvalTimeout(Head(timers))
     IN  Ran("approvalTimeout", Head(timers), [out EXCEPT !.timers = Tail(timers)])

PersistApprove ==
  /\ PersistBudget
  /\ mode = "admin"
  /\ \E id \in PersistIds : Ran("approveBooking", id, approveBooking(id))

PersistReject ==
  /\ PersistBudget
  /\ mode = "admin"
  /\ \E id \in PersistIds : Ran("rejectBooking", id, rejectBooking(id))

PersistCancel ==
  PersistBudget /\ \E id \in PersistIds : Ran("cancelBooking", id, cancelBooking(id))

PersistExtend ==
  /\ PersistBudget
  /\ \E id \in PersistIds, e \in TimesOfDay :
       Ran("extendBooking", id, extendBooking(id, e))

PersistModify ==
  /\ PersistBudget
  /\ \E id \in PersistIds, e \in {HalfDayMs, DayMs} :
       Ran("modifyBooking", id, modifyBooking(id, HalfDayMs, e, None))

(* the refresh that initLaundryPage starts, and calls that overlap it *)
PersistRefresh ==
  (fetches = 0 \/ liveStatusFetchInFlight) /\ refreshLiveMachineFromBackend

PersistStatusResponds ==
  \E resp \in {"fail", "available"} :
    refreshes # <<>> /\ refreshes[1].pc = "status" /\ statusResponds(1, resp)

PersistLogResponds ==
  \E resp \in {"fail", "door opened"} :
    refreshes # <<>> /\ refreshes[1].pc = "log" /\ logResponds(1, resp)

NextPersist ==
  \/ PersistStartWash
  \/ PersistCollect
  \/ PersistNudge
  \/ PersistFlag
  \/ PersistReport
  \/ PersistTick
  \/ PersistWatch
  \/ PersistSubmit
  \/ PersistTimeout
  \/ PersistApprove
  \/ PersistReject
  \/ PersistCancel
  \/ PersistExtend
  \/ PersistModify
  \/ PersistRefresh
  \/ PersistStatusResponds
  \/ PersistLogResponds

SpecPersist == InitPersist /\ [][NextPersist]_vars

(* C25: whenever an operation has returned, the persisted snapshot equals *)
(* the aggregate in memory.                                               *)
WriteThrough == stored = Aggregate

(* a tick that emitted no notice has taken a minute off a running         *)
(* machine, and the snapshot holds the new eta                            *)
WriteThroughWitness ==
  /\ call.op = "tick"
  /\ notices = <<>>
  /\ \E m \in MachineIds :
       /\ machines[m].eta = Some(SeedEtaMin - 1)
       /\ stored.machines[m].eta = Some(SeedEtaMin - 1)

----------------------------------------------------------------------------
(* Loading: localStorage holds any payload, sound or damaged, and         *)
(* initState runs on it.  Before it has run, state is undefined; a        *)
(* collection that the kept payload lacks, or holds as something else     *)
(* than an array, is not an array in memory either: its variable stays at *)
(* the empty value and the payload, which stays in stored, tells what it  *)
(* is.                                                                    *)

STATE_VERSION == 3

(* what localStorage may hold: no item, text that does not parse, or an   *)
(* object whose fields are described by kind                              *)
Payloads ==
  {[text |-> t, version |-> STATE_VERSION, machines |-> "valid", rooms |-> "valid",
    bookings |-> "valid", washes |-> "valid", notices |-> "valid",
    reports |-> "valid", watchFree |-> "valid"] : t \in {"absent", "garbled"}}
  \cup [text : {"json"},
        version : {STATE_VERSION - 1, STATE_VERSION},
        machines : {"missing", "notArray", "empty", "badStatus", "valid"},
        rooms : {"missing", "notArray", "empty", "valid"},
        bookings : {"missing", "notArray", "valid"},
        washes : {"missing", "valid"},
        notices : {"missing", "valid"},
        reports : {"missing", "valid"},
        watchFree : {"missing", "valid"}]

(* loadState: null for no item and for text that does not parse *)
loadState(p) == IF p.text = "json" THEN Some(p) ELSE None

(* needsReset, up to the test of the machines' statuses; the tests are    *)
(* made in this order and stop at the first that holds                    *)
resetBeforeSome(l) ==
  \/ l = None
  \/ Val(l).version # STATE_VERSION
  \/ Val(l).machines \in {"missing", "empty"}

(* state.machines.some(...) on a value that has no such method *)
someThrows(l) == ~resetBeforeSome(l) /\ Val(l).machines = "notArray"

needsReset(l) ==
  \/ resetBeforeSome(l)
  \/ Val(l).machines = "badStatus"
  \/ Val(l).rooms \in {"missing", "notArray", "empty"}
  \/ Val(l).bookings \in {"missing", "notArray"}

Unloaded ==
  /\ machines = [m \in MachineIds |-> SeedMachine("FREE", None, None)]
  /\ washes = <<>>
  /\ notices = <<>>
  /\ reports = <<>>
  /\ watchFree = [f \in Floors |-> FALSE]
  /\ user = None
  /\ bookings = <<>>

(* state = { version, machines: makeMachines(), ... }; saveState() *)
FreshSeed ==
  /\ machines' \in makeMachines
  /\ UNCHANGED <<washes, notices, reports, watchFree, user, bookings>>
  /\ saveState

(* state = loadState() and nothing more *)
Kept == UNCHANGED <<machineVars, notices, bookings, stored>>

(* initState; call.id is 1 when it reseeded and 0 when it kept the loaded *)
(* object, call.alert holds the exception it raised, "" for none          *)
initState ==
  LET l == loadState(stored)
  IN  /\ UNCHANGED <<clockVars, timers, mode, procVars>>
      /\ IF someThrows(l)
         THEN Kept /\ call' = Call("initState", 0, "TypeError")
         ELSE IF needsReset(l)
         THEN FreshSeed /\ call' = Call("initState", 1, "")
         ELSE Kept /\ call' = Call("initState", 0, "")

InitPage ==
  /\ InitLoaded
  /\ Unloaded
  /\ now = 0
  /\ ticks = 0
  /\ timers = <<>>
  /\ mode = "auto"
  /\ call = Call("load", 0, "")
  /\ stored \in Payloads

InitStateRuns == call.op = "load" /\ initState

NextLoad == InitStateRuns

SpecLoad == InitPage /\ [][NextLoad]_vars

(* the payload is absent or unparsable, of another version, holds a       *)
(* machine of unknown status, or lacks a collection of the aggregate: the *)
(* field is not there, is not an array, or, for the seeded collections,   *)
(* is empty                                                               *)
Damaged(p) ==
  \/ p.text # "json"
  \/ p.version # STATE_VERSION
  \/ p.machines = "badStatus"
  \/ \E c \in {p.machines, p.rooms, p.bookings, p.washes, p.notices, p.reports,
               p.watchFree} : c \in {"missing", "notArray"}
  \/ p.machines = "empty"
  \/ p.rooms = "empty"

(* C26: initState replaces the loaded state by a fresh seed whenever the  *)
(* payload is absent, unparsable, of another version, holds a machine of  *)
(* unknown status or lacks a collection, keeps it otherwise, and raises   *)
(* no error.                                                              *)
ReseedsWhenDamaged ==
  [][call'.op = "initState" =>
       /\ call'.alert = ""
       /\ Damaged(stored)
            => /\ call'.id = 1
               /\ stored' = Aggregate'
               /\ machines' \in makeMachines
               /\ washes' = <<>> /\ notices' = <<>> /\ reports' = <<>>
               /\ bookings' = <<>>
               /\ \A f \in Floors : ~watchFree'[f]
       /\ ~Damaged(stored) => (call'.id = 0 /\ stored' = stored)]_vars

----------------------------------------------------------------------------
(* My Bookings: stored bookings live as above, time passes, and the page  *)
(* is rendered.                                                           *)

(* the entry renderMyBookings puts on the page for booking b at time t *)
presented(b, t) ==
  IF b.status \in {"CANCELLED", "REJECTED"} THEN b
  ELSE IF b.endAt < t THEN [b EXCEPT !.status = "COMPLETED"]
  ELSE b

presentedCompleted ==
  {i \in 1 .. Len(bookings) : presented(bookings[i], now).status = "COMPLETED"}

renderMyBookingsStoring ==
  /\ bookings' = [i \in 1 .. Len(bookings) |-> presented(bookings[i], now)]
  /\ call' = Call("renderMyBookings", Cardinality(presentedCompleted), "")
  /\ UNCHANGED <<machineVars, notices, clockVars, timers, mode, procVars>>
  /\ saveState

(* renderMyBookings; call.id is the number of entries shown as completed *)
renderMyBookings ==
  /\ call' = Call("renderMyBookings", Cardinality(presentedCompleted), "")
  /\ UNCHANGED <<machineVars, notices, clockVars, bookingVars, procVars, stored>>

ViewSubmit ==
  /\ StatusBudget
  /\ Len(bookings) <= MaxProbeBookings
  /\ Ran("submitClick", 1, submitClick(1, TRUE, 0, 0, HalfDayMs, DayMs, "study"))

(* a day goes by *)
ViewDayPasses ==
  /\ now = 0
  /\ now' = DayMs
  /\ call' = Call("dayPasses", 0, "")
  /\ UNCHANGED <<machineVars, notices, ticks, bookingVars, procVars, stored>>

ViewRender == renderMyBookings

NextView ==
  \/ NextStatus
  \/ ViewSubmit
  \/ ViewDayPasses
  \/ ViewRender

SpecView == InitStatus /\ [][NextView]_vars

(* C27: the stored status of every booking is always PENDING, APPROVED,   *)
(* REJECTED or CANCELLED, and rendering My Bookings, which presents a     *)
(* booking that is neither cancelled nor rejected and whose endAt has     *)
(* passed as COMPLETED, leaves the stored bookings unchanged.             *)
CompletedNeverStored ==
  /\ [](\A i \in 1 .. Len(bookings) : bookings[i].status \in Statuses)
  /\ [](\A i \in 1 .. Len(stored.bookings) : stored.bookings[i].status \in Statuses)
  /\ [][call'.op = "renderMyBookings" =>
          /\ bookings' = bookings
          /\ stored' = stored
          /\ call'.id = Cardinality({i \in 1 .. Len(bookings) :
                          /\ bookings[i].status \in {"PENDING", "APPROVED"}
                          /\ bookings[i].endAt < now})]_vars

(* the page has just presented a booking as completed *)
CompletedNeverStoredWitness ==
  /\ call.op = "renderMyBookings"
  /\ call.id > 0
  /\ \E i \in 1 .. Len(bookings) :
       bookings[i].status = "APPROVED" /\ bookings[i].endAt < now

----------------------------------------------------------------------------
(* The live overlay: the refresh runs on seeded machines of any status    *)
(* and the laundry page shows the designated machine by its live value.   *)

(* effectiveStatus of updateLaundryView *)
effectiveStatus(m) ==
  IF isLiveMachine(m) /\ live.liveAvailability # None
  THEN IF Val(live.liveAvailability) THEN "FREE" ELSE "MAINT"
  ELSE machines[m].status

InitOverlay ==
  /\ InitCommon
  /\ machines \in makeMachines
  /\ mode = "auto"
  /\ stored = Aggregate

SpecOverlay == InitOverlay /\ [][NextLive]_vars

(* C28: a live refresh writes only the live availability and the live log *)
(* of the designated machine; statuses, etas, counters, washes, bookings, *)
(* notices and watch-free flags stay as they are, in memory and in the    *)
(* snapshot, and the FREE or MAINT shown for that machine is computed     *)
(* from the live value when the page is rendered.                         *)
LiveRefreshFrame ==
  /\ [][call'.op \in {"refresh", "statusResponds", "refreshDone"} =>
          /\ UNCHANGED <<machines, washes, reports, notices, watchFree, user,
                         bookings, timers>>
          /\ call'.op # "refreshDone" => (live' = live /\ stored' = stored)
          /\ call'.op = "refreshDone"
               => stored' = [stored EXCEPT !.live = live']]_vars
  /\ [](\A m \in MachineIds :
          effectiveStatus(m) # machines[m].status
            => /\ m = 1
               /\ live.liveAvailability # None
               /\ effectiveStatus(m) \in {"FREE", "MAINT"})

(* a refresh has found the machine available while its stored status is   *)
(* RUNNING with its eta: the page shows FREE                              *)
LiveRefreshFrameWitness ==
  /\ call.op = "refreshDone"
  /\ live.liveAvailability = Some(TRUE)
  /\ machines[1].status = "RUNNING"
  /\ machines[1].eta # None
  /\ effectiveStatus(1) = "FREE"

----------------------------------------------------------------------------
(* Cycles long enough to pass three minutes: machine 1 is started with    *)
(* any duration, restarted or collected, and the minute timer fires.      *)

FinishMinutes == 0 .. MaxFinishMinutes

FinishBudget == Len(notices) < MaxFinishNotices

FinishStartWash ==
  FinishBudget /\ \E minutes \in FinishMinutes : startWash(1, minutes)

FinishCollect ==
  FinishBudget /\ machines[1].status = "AWAITING" /\ markCollected(1)

FinishTick == ticks < MaxFinishTicks /\ tick

NextFinish ==
  \/ FinishStartWash
  \/ FinishCollect
  \/ FinishTick

SpecFinish == InitCycle /\ [][NextFinish]_vars

(* the step has emitted the three-minute notice of machine m *)
EmitsFinishing(m) ==
  \E k \in 1 .. Len(NewNotices) :
    /\ NewNotices[k].title = "finishing in ~3 minutes"
    /\ NewNotices[k].about = m

(* the three-minute notices of machine m emitted after time s *)
FinishingSince(m, s) ==
  Cardinality({k \in 1 .. Len(notices) :
                 /\ notices[k].title = "finishing in ~3 minutes"
                 /\ notices[k].about = m
                 /\ notices[k].id > s})

HasCycle(m) == \E k \in 1 .. Len(washes) : washes[k].machineId = m

(* the wash record of the cycle of machine m that was started last *)
LastCycle(m) ==
  washes[CHOOSE k \in 1 .. Len(washes) :
           /\ washes[k].machineId = m
           /\ \A j \in 1 .. (k - 1) : washes[j].machineId # m]

(* the minutes the running cycle of machine m was started with: what is   *)
(* left and the ticks since its start                                     *)
StartedWith(m) ==
  Val(machines[m].eta) + ((now - LastCycle(m).startAt) \div TickMs)

(* C29: the "finishing in ~3 minutes" notice of a machine is emitted by   *)
(* the tick that takes its eta from 4 to 3 and by no other step, a cycle  *)
(* holds at most one such notice, and a cycle started with 3 minutes or   *)
(* fewer holds none.                                                      *)
FinishingNoticeOnce ==
  /\ [][\A m \in MachineIds :
          EmitsFinishing(m) <=>
            /\ call'.op = "tick"
            /\ machines[m].status = "RUNNING"
            /\ machines[m].eta = Some(4)
            /\ machines'[m].eta = Some(3)]_vars
  /\ [](\A m \in MachineIds :
          HasCycle(m) =>
            /\ FinishingSince(m, LastCycle(m).startAt) <= 1
            /\ (machines[m].status = "RUNNING" /\ StartedWith(m) <= 3)
                 => FinishingSince(m, LastCycle(m).startAt) = 0
            /\ (machines[m].status = "AWAITING"
                /\ LastCycle(m).endAt # None
                /\ Val(LastCycle(m).endAt) - LastCycle(m).startAt <= 3 * TickMs)
                 => FinishingSince(m, LastCycle(m).startAt) = 0)

(* a cycle started with 5 minutes has run to its end: its notice came     *)
(* with the second tick, and the later ticks added none                   *)
FinishingNoticeOnceWitness ==
  /\ call.op = "tick"
  /\ machines[1].status = "AWAITING"
  /\ HasCycle(1)
  /\ LastCycle(1).endAt # None
  /\ Val(LastCycle(1).endAt) - LastCycle(1).startAt = 5 * TickMs
  /\ FinishingSince(1, LastCycle(1).startAt) = 1

----------------------------------------------------------------------------
(* Reminders: users log in and out, change their contact, start a wash    *)
(* on machine 1 and nudge it.                                             *)

updateUserContact(phone) ==
  /\ user # None
  /\ user' = Some([Val(user) EXCEPT !.phone = PhoneOrNull(phone)])
  /\ notices' = pushNotice(notices, "Profile updated", 0, "success", now)
  /\ call' = Call("updateUserContact", 0, "")
  /\ UNCHANGED <<machines, washes, reports, watchFree, clockVars, bookingVars,
                 procVars>>
  /\ saveState

logoutUser ==
  /\ user' = None
  /\ notices' = pushNotice(notices, "Logged out", 0, "info", now)
  /\ call' = Call("logoutUser", 0, "")
  /\ UNCHANGED <<machines, washes, reports, watchFree, clockVars, bookingVars,
                 procVars>>
  /\ saveState

(* loginUser and logoutUser end with window.location.href = 'index.html' *)
Redirected == call.op \in {"loginUser", "logoutUser"}

(* the page the redirect leads to has loaded: the clock has moved on by a *)
(* millisecond at least                                                   *)
pageLoads ==
  /\ now' = now + 1
  /\ call' = Call("load", 0, "")
  /\ UNCHANGED <<machineVars, notices, ticks, timers, mode, bookingVars,
                 procVars, stored>>

Emails == {"", " ", "you@iimcal.ac.in"}
Phones == {"", " +91 9876543210 "}

RemindBudget == Len(notices) < MaxRemindNotices /\ ~Redirected

RemindLogin ==
  RemindBudget /\ \E email \in Emails, phone \in Phones : loginUser(email, phone)

RemindLogout == RemindBudget /\ user # None /\ logoutUser

RemindContact == RemindBudget /\ \E phone \in Phones : updateUserContact(phone)

RemindStartWash ==
  /\ RemindBudget
  /\ machines[1].status = "FREE"
  /\ startWash(1, 1)

RemindNudge == RemindBudget /\ nudgeMachine(1)

RemindLoad == Redirected /\ now < MaxLoads /\ pageLoads

NextRemind ==
  \/ RemindLogin
  \/ RemindLogout
  \/ RemindContact
  \/ RemindStartWash
  \/ RemindNudge
  \/ RemindLoad

SpecRemind == InitCycle /\ [][NextRemind]_vars

(* the owner of the machine is the logged-in user and can be contacted *)
OwnerReachable(m) ==
  /\ machines[m].ownerId # None
  /\ user # None
  /\ Val(user).id = Val(machines[m].ownerId)
  /\ (Val(user).phone # None \/ Val(user).email # "")

(* C30: a nudgeMachine call that brings nudgeCount to 3 or more emits the *)
(* warning and then a reminder info notice if the machine has an ownerId, *)
(* the id is the logged-in user's and that user has a phone or an email;  *)
(* otherwise it emits the warning alone. A login gives an id that no      *)
(* earlier login had and that owns no cycle started before it.            *)
ReminderToLoggedInOwner ==
  [][/\ (call'.op = "nudgeMachine" /\ Val(machines'[call'.id].nudgeCount) >= 3)
          => IF OwnerReachable(call'.id)
             THEN /\ Len(NewNotices) = 2
                  /\ NewNotices[2].kind = "warning"
                  /\ NewNotices[1].kind = "info"
                  /\ NewNotices[1].title = "Reminder sent"
             ELSE /\ Len(NewNotices) = 1
                  /\ NewNotices[1].kind = "warning"
     /\ call'.op = "loginUser"
          => /\ \A m \in MachineIds : machines'[m].ownerId # UserId(user')
             /\ \A k \in 1 .. Len(notices) :
                  notices[k].title = "Logged in"
                    => notices[k].id # Val(user').id]_vars

(* the owner of the running cycle has logged out and in again with the    *)
(* same email; the third nudge has given the warning alone                *)
ReminderToLoggedInOwnerWitness ==
  /\ call.op = "nudgeMachine"
  /\ Val(machines[1].nudgeCount) >= 3
  /\ notices[1].kind = "warning"
  /\ machines[1].ownerId # None
  /\ user # None
  /\ Val(user).email = "you@iimcal.ac.in"
  /\ Val(user).id # Val(machines[1].ownerId)
  /\ \E k \in 1 .. Len(notices) : notices[k].title = "Logged out"

----------------------------------------------------------------------------
(* Approval timers: in automatic mode bookings of room 1 are submitted    *)
(* through the form, cancelled, extended and modified while the timeouts  *)
(* of simulateApproval are pending and fire in the order they were set.   *)

InitApproval ==
  /\ InitCommon
  /\ machines = [m \in MachineIds |-> SeedMachine("FREE", None, None)]
  /\ mode = "auto"
  /\ stored = Aggregate

ApprovalTimes == {0, HalfDayMs, DayMs}
ApprovalIds == 1 .. MaxApprovalBookings

ApprovalBudget == Len(notices) < MaxApprovalNotices

ApprovalSubmit ==
  /\ ApprovalBudget
  /\ Len(bookings) < MaxApprovalBookings
  /\ Ran("submitClick", 1, submitClick(1, TRUE, 0, 0, HalfDayMs, DayMs, "study"))

ApprovalCancel ==
  ApprovalBudget /\ \E id \in ApprovalIds : Ran("cancelBooking", id, cancelBooking(id))

ApprovalExtend ==
  /\ ApprovalBudget
  /\ \E id \in ApprovalIds, e \in ApprovalTimes :
       Ran("extendBooking", id, extendBooking(id, e))

ApprovalModify ==
  /\ ApprovalBudget
  /\ \E id \in ApprovalIds, st \in ApprovalTimes, e \in ApprovalTimes :
       Ran("modifyBooking", id, modifyBooking(id, st, e, None))

ApprovalFires ==
  /\ timers # <<>>
  /\ LET out == approvalTimeout(Head(timers))
     IN  Ran("approvalTimeout", Head(timers), [out EXCEPT !.timers = Tail(timers)])

NextApproval ==
  \/ ApprovalSubmit
  \/ ApprovalCancel
  \/ ApprovalExtend
  \/ ApprovalModify
  \/ ApprovalFires

SpecApproval == InitApproval /\ [][NextApproval]_vars

(* the same, the timeouts firing as long as one is pending *)
SpecApprovalFair == SpecApproval /\ WF_vars(ApprovalFires)

ApprovalNotices(ns) ==
  Cardinality({k \in 1 .. Len(ns) : ns[k].title = "Booking approved"})

(* C31: a firing approval timer changes its booking only when the booking *)
(* is PENDING at that moment, then to APPROVED with one approval notice;  *)
(* on a CANCELLED or already APPROVED booking it changes nothing, and no  *)
(* other step approves a booking or emits an approval notice.             *)
TimerApprovesPendingOnly ==
  [][/\ call'.op = "approvalTimeout" =>
          LET idx == findIndex(call'.id)
          IN  IF idx > 0 /\ bookings[idx].status = "PENDING"
              THEN /\ bookings' = [bookings EXCEPT ![idx] =
                                     [@ EXCEPT !.status = "APPROVED",
                                               !.updatedAt = now]]
                   /\ Len(NewNotices) = 1
                   /\ NewNotices[1].title = "Booking approved"
                   /\ stored'.bookings = bookings'
              ELSE /\ bookings' = bookings
                   /\ notices' = notices
                   /\ stored' = stored
     /\ call'.op # "approvalTimeout" =>
          /\ ApprovalNotices(notices') = ApprovalNotices(notices)
          /\ \A i \in 1 .. Len(bookings) :
               \E j \in 1 .. Len(bookings') :
                 /\ bookings'[j].id = bookings[i].id
                 /\ bookings'[j].status = "APPROVED"
                      => bookings[i].status = "APPROVED"]_vars

(* a booking was submitted and modified, its first timer approved it and  *)
(* its second timer, the last one pending, has fired without effect       *)
TimerApprovesPendingOnlyWitness ==
  /\ call.op = "approvalTimeout"
  /\ timers = <<>>
  /\ Len(bookings) = 1
  /\ bookings[1].status = "APPROVED"
  /\ ApprovalNotices(notices) = 1
  /\ \E k \in 1 .. Len(notices) : notices[k].title = "Booking modified"

----------------------------------------------------------------------------
(* Active bookings of a room *)

Active(b) == b.status \in {"PENDING", "APPROVED"}

(* the test of checkConflict between two stored bookings *)
Overlapping(a, b) == a.startAt < b.endAt /\ a.endAt > b.startAt

InitRooms ==
  /\ InitCommon
  /\ machines = [m \in MachineIds |-> SeedMachine("FREE", None, None)]
  /\ mode \in {"auto", "admin"}
  /\ stored = Aggregate

RoomIds == 1 .. MaxRoomBookings
RoomTimes == {0, HalfDayMs, DayMs, DayMs + HalfDayMs}

RoomBudget == Len(notices) < MaxRoomNotices

RoomSubmit ==
  /\ RoomBudget
  /\ Len(bookings) < MaxRoomBookings
  /\ \E r \in {1, NumRooms}, sv \in TimesOfDay, ev \in TimesOfDay :
       Ran("submitClick", r, submitClick(r, TRUE, 0, sv, ev, DayMs, "study"))

RoomFires ==
  /\ timers # <<>>
  /\ LET out == approvalTimeout(Head(timers))
     IN  Ran("approvalTimeout", Head(timers), [out EXCEPT !.timers = Tail(timers)])

RoomApprove ==
  /\ RoomBudget
  /\ mode = "admin"
  /\ \E id \in RoomIds : Ran("approveBooking", id, approveBooking(id))

RoomReject ==
  /\ RoomBudget
  /\ mode = "admin"
  /\ \E id \in RoomIds : Ran("rejectBooking", id, rejectBooking(id))

RoomCancel ==
  RoomBudget /\ \E id \in RoomIds : Ran("cancelBooking", id, cancelBooking(id))

RoomExtend ==
  /\ RoomBudget
  /\ \E id \in RoomIds, e \in RoomTimes :
       Ran("extendBooking", id, extendBooking(id, e))

RoomModify ==
  /\ RoomBudget
  /\ \E id \in RoomIds, st \in RoomTimes, e \in RoomTimes :
       st < e /\ Ran("modifyBooking", id, modifyBooking(id, st, e, None))

NextRooms ==
  \/ RoomSubmit
  \/ RoomFires
  \/ RoomApprove
  \/ RoomReject
  \/ RoomCancel
  \/ RoomExtend
  \/ RoomModify

SpecRooms == InitRooms /\ [][NextRooms]_vars

(* C32: no two PENDING or APPROVED bookings of the same room overlap,     *)
(* when new bookings come from the validated form; approvals, cancels,    *)
(* extensions, modifications and approval timers keep it so.              *)
NoActiveOverlap ==
  \A i, j \in 1 .. Len(bookings) :
    (/\ i # j
     /\ bookings[i].roomId = bookings[j].roomId
     /\ Active(bookings[i])
     /\ Active(bookings[j]))
    => ~Overlapping(bookings[i], bookings[j])

(* a modification has been accepted and left two active bookings of one   *)
(* room back to back                                                      *)
NoActiveOverlapWitness ==
  /\ call.op = "modifyBooking"
  /\ call.alert = ""
  /\ \E i, j \in 1 .. Len(bookings) :
       /\ i # j
       /\ bookings[i].roomId = bookings[j].roomId
       /\ Active(bookings[i])
       /\ Active(bookings[j])
       /\ bookings[i].id = call.id
       /\ bookings[i].startAt < bookings[i].endAt
       /\ bookings[j].startAt < bookings[j].endAt
       /\ \/ bookings[i].endAt = bookings[j].startAt
          \/ bookings[j].endAt = bookings[i].startAt

----------------------------------------------------------------------------
(* Timed cycles: FREE machines are started with any duration, flagged,    *)
(* reported and collected, and the minute timer keeps firing.             *)

RunMinutes == (-1) .. MaxRunMinutes

RunBudget == Len(notices) < MaxRunNotices

(* the Start Wash button of a machine shown as FREE *)
RunStartWash ==
  /\ RunBudget
  /\ ticks < MaxRunTicks
  /\ \E m \in {1, NumMachines}, minutes \in RunMinutes :
       machines[m].status = "FREE" /\ startWash(m, minutes)

RunFlag == RunBudget /\ flagMachine(1)

RunReport == RunBudget /\ submitReport(1, "Not working", TRUE)

RunCollect ==
  RunBudget /\ machines[1].status = "AWAITING" /\ markCollected(1)

(* the interval callback, followed while a cycle is running *)
RunTick ==
  /\ ticks < MaxRunTicks \/ \E m \in MachineIds : machines[m].status = "RUNNING"
  /\ tick

NextRun ==
  \/ RunStartWash
  \/ RunFlag
  \/ RunReport
  \/ RunCollect
  \/ RunTick

SpecRun == InitCycle /\ [][NextRun]_vars /\ WF_vars(RunTick)

(* the ticks since the cycle of machine m was started *)
TicksSinceStart(m) == (now - LastCycle(m).startAt) \div TickMs

(* C33: startWash(m, n) leaves m RUNNING with eta n; while the machine is *)
(* not reported, flagged or collected, each tick takes one minute off, so *)
(* eta plus the ticks since the start stays n, and the tick that ends the *)
(* cycle is the n-th, or the first when n <= 0; with the timer firing     *)
(* every RUNNING machine becomes AWAITING unless it is reported first.    *)
CountdownReachesAwaiting ==
  /\ [][\A m \in MachineIds :
          /\ (call'.op = "startWash" /\ call'.id = m)
               => /\ machines'[m].status = "RUNNING"
                  /\ machines'[m].eta # None
                  /\ TicksSinceStart(m)' = 0
          /\ (call'.op = "tick" /\ machines[m].status = "RUNNING")
               => LET n == Val(machines[m].eta) + TicksSinceStart(m)
                      k == TicksSinceStart(m)'
                  IN  /\ k = TicksSinceStart(m) + 1
                      /\ IF k >= n
                         THEN /\ machines'[m].status = "AWAITING"
                              /\ (n >= 1 => k = n)
                              /\ (n <= 0 => k = 1)
                         ELSE /\ machines'[m].status = "RUNNING"
                              /\ machines'[m].eta = Some(n - k)
          /\ (machines[m].status = "RUNNING"
              /\ (call'.op # "tick")
              /\ (call'.op \in {"startWash", "flagMachine", "submitReport",
                                "markCollected"} => call'.id # m))
               => /\ machines'[m].status = "RUNNING"
                  /\ machines'[m].eta = machines[m].eta]_vars
  /\ \A m \in MachineIds :
       (machines[m].status = "RUNNING")
         ~> (machines[m].status \in {"AWAITING", "MAINT"})

(* a cycle started with 3 minutes has just ended, on the third tick *)
CountdownReachesAwaitingWitness ==
  /\ call.op = "tick"
  /\ \E m \in MachineIds :
       /\ machines[m].status = "AWAITING"
       /\ HasCycle(m)
       /\ machines[m].lastCompletedAt = Some(now)
       /\ TicksSinceStart(m) = 3

----------------------------------------------------------------------------
(* Pending bookings under firing timers *)

StatusOf(id) ==
  IF findIndex(id) = 0 THEN "" ELSE bookings[findIndex(id)].status

TimerSetFor(id) == \E k \in 1 .. Len(timers) : timers[k] = id

(* C34: in automatic mode a booking that is PENDING, after a submission,  *)
(* an extension or a modification, has an approval timeout pending, and   *)
(* with the timeouts firing it becomes APPROVED unless it is cancelled    *)
(* before.                                                                *)
PendingEventuallyApproved ==
  /\ [](\A id \in ApprovalIds : StatusOf(id) = "PENDING" => TimerSetFor(id))
  /\ \A id \in ApprovalIds :
       (StatusOf(id) = "PENDING") ~> (StatusOf(id) \in {"APPROVED", "CANCELLED"})

(* an extension had put an approved booking back to PENDING and its       *)
(* timeout has just approved it again                                     *)
PendingEventuallyApprovedWitness ==
  /\ call.op = "approvalTimeout"
  /\ StatusOf(call.id) = "APPROVED"
  /\ Len(notices) >= 2
  /\ notices[1].title = "Booking approved"
  /\ notices[2].title = "Extension requested"

----------------------------------------------------------------------------
(* The guard of the refresh: the page holds the seeded machines or a kept *)
(* snapshot whose machines do not include M-1A, refreshes are called and  *)
(* every request settles, with a response or a failure.                   *)

InitGuard ==
  /\ InitCommon
  /\ \/ machines = [m \in MachineIds |-> SeedMachine("FREE", None, None)]
     \/ machines = [m \in MachineIds \ {1} |-> SeedMachine("FREE", None, None)]
  /\ mode = "auto"
  /\ stored = Aggregate

SpecGuard ==
  /\ InitGuard
  /\ [][NextLive]_vars
  /\ WF_vars(LiveStatusResponds)
  /\ WF_vars(LiveLogResponds)

(* C35: a refresh that has ended, by finding no designated machine or     *)
(* after its two requests have settled in any way, has left the guard     *)
(* false, and a guard that is set is released when the requests settle.   *)
GuardReleased ==
  /\ []((call.op = "refreshDone" \/ (call.op = "refresh" /\ call.id = 2))
          => ~liveStatusFetchInFlight)
  /\ [](liveStatusFetchInFlight => refreshes # <<>>)
  /\ liveStatusFetchInFlight ~> ~liveStatusFetchInFlight

(* a refresh whose two requests failed has ended and the guard is free *)
GuardReleasedWitness ==
  /\ call.op = "refreshDone"
  /\ call.id = 3
  /\ ~liveStatusFetchInFlight
  /\ refreshes = <<>>
  /\ fetches >= 2

----------------------------------------------------------------------------
(* Operations during a refresh: while the requests of a refresh are in    *)
(* flight, the designated machine is started, collected or reported and   *)
(* the minute timer fires.                                                *)

StaleBudget == Len(notices) < MaxStaleNotices

StaleStartWash ==
  StaleBudget /\ machines[1].status = "FREE" /\ startWash(1, 1)

StaleCollect ==
  StaleBudget /\ machines[1].status = "AWAITING" /\ markCollected(1)

StaleReport == StaleBudget /\ reportSubmitClick(1, "Not working", TRUE)

StaleTick == ticks < MaxNoticeTicks /\ tick

NextStale ==
  \/ LiveRefresh
  \/ LiveStatusResponds
  \/ LiveLogResponds
  \/ StaleStartWash
  \/ StaleCollect
  \/ StaleReport
  \/ StaleTick

SpecStale == InitOverlay /\ [][NextStale]_vars

(* C36: a refresh whose two requests succeeded ends with the fetched      *)
(* availability and log on the designated machine of the state and in     *)
(* the snapshot, whatever ran while the requests were in flight.          *)
RefreshResultStored ==
  [][\A resp \in LogResponses \ {"fail"} :
       (/\ refreshes # <<>>
        /\ refreshes[1].pc = "log"
        /\ ~refreshes[1].statusFailed
        /\ logResponds(1, resp))
       => /\ live'.liveAvailability = refreshes[1].liveAvailability
          /\ live'.liveLog = parseLogSnippet(resp)
          /\ stored'.live = live']_vars

----------------------------------------------------------------------------
(* Counters of machines nudged and flagged from their cards *)

(* C37: a nudge or a flag from the modal of a machine card of an AWAITING *)
(* machine is counted on the machine of the state: nudgeCount goes up by  *)
(* one and the third nudge warns; flagCount goes up by one and the second *)
(* flag resets both counters with a report notice.                        *)
CardCountersAccumulate ==
  [][\A m \in MachineIds :
       /\ (machines[m].status = "AWAITING" /\ nudgeBtnClick(m))
            => /\ machines'[m].nudgeCount
                    = Some(Count(machines[m].nudgeCount) + 1)
               /\ stored'.machines[m].nudgeCount = machines'[m].nudgeCount
       /\ (machines[m].status = "AWAITING" /\ flagBtnClick(m))
            => /\ machines'[m].flagCount
                    = IF Count(machines[m].flagCount) + 1 >= 2 THEN Some(0)
                      ELSE Some(Count(machines[m].flagCount) + 1)
               /\ stored'.machines[m].flagCount = machines'[m].flagCount]_vars

----------------------------------------------------------------------------
(* Wash records and the machines they belong to *)

(* C38: under ticks and the actions the pages offer, a wash record with   *)
(* status RUNNING belongs to a machine whose status is RUNNING, and a wash *)
(* record with status AWAITING belongs to a machine whose status is       *)
(* AWAITING.                                                              *)
WashMatchesMachine ==
  \A i \in 1 .. Len(washes) :
    washes[i].status \in {"RUNNING", "AWAITING"}
      => machines[washes[i].machineId].status = washes[i].status

====
